---- MODULE Spec2Model ----
(***************************************************************************)
(* CampusLink backend (Express + Mongoose): the timetable store, the       *)
(* skill-exchange contact-request / learning-session lifecycle, the        *)
(* lost-and-found registry and the complaint tracker, as a state machine   *)
(* over the document collections.  One action is one HTTP request handled  *)
(* to completion.                                                          *)
(***************************************************************************)
EXTENDS Naturals, Integers, Sequences, FiniteSets, TLC

VARIABLES
    scope,          \* the router whose requests this behaviour exercises
    now,            \* the server clock (new Date()), in ticks
    entries,        \* TimetableEntry collection
    entrySeq,       \* number of TimetableEntry ids handed out
    teachers,       \* PeerTeacher collection
    requests,       \* ContactRequest collection
    sessions,       \* LearningSession collection
    notifications,  \* Notification collection, in insertion order
    items,          \* LostFoundItem collection
    itemSeq,        \* number of LostFoundItem ids handed out
    complaints,     \* Complaint collection
    complaintSeq,   \* number of Complaint ids handed out
    pending,        \* create-entry requests between their lookup and their save
    feedbacks,      \* feedback requests between their reads and their writes
    accepting,      \* acceptance requests between their lookup and their save
    applied,        \* the ratings passed to updateRating, oldest first
    accounts,       \* User collection
    last            \* the last request handled and its response

ttVars == <<entries, entrySeq>>
skillVars == <<teachers, requests, sessions, notifications>>
campusVars == <<items, itemSeq, complaints, complaintSeq>>
raceVars == <<pending, feedbacks, accepting>>
vars == <<scope, now, ttVars, skillVars, campusVars, raceVars, applied, accounts, last>>

(***************************************************************************)
(* Bounds of the exploration.                                              *)
(***************************************************************************)
MaxEntries == 2         \* timetable entries created in a timetable behaviour
MaxBulk == 2            \* documents of one bulk request
MaxOwned == 1           \* documents per collection in an access-control behaviour
MaxTime == 1            \* ticks of the server clock
MaxRequests == 1        \* contact requests created
MaxNotifications == 3   \* notifications stored
MaxRatings == 2         \* ratings applied to one teacher profile
MaxNotes == 2           \* notes of one learning session
MaxComments == 1        \* comments stored in a behaviour
MaxInFlight == 2        \* requests handled concurrently
MaxApplied == 3         \* ratings applied to one teacher profile, one at a time

(***************************************************************************)
(* Users and roles (the role claim of the bearer token).                   *)
(***************************************************************************)
Students == {"alice", "bob"}
Admins == {"root"}
Users == Students \cup Admins

Role(u) == IF u \in Admins THEN "admin" ELSE "student"

\* middleware/auth requireAdmin: lets only the admin role through.
RequireAdmin(u) == Role(u) = "admin"

(***************************************************************************)
(* Strings of the time fields.  A string is a sequence of characters; the  *)
(* document store orders strings by character code, and the digits come    *)
(* before the colon.                                                       *)
(***************************************************************************)
Digits == <<"0", "1", "2", "3", "4", "5", "6", "7", "8", "9">>
CharOrder == Digits \o <<":">>

IsDigit(c) == \E i \in 1..Len(Digits) : Digits[i] = c
DigitVal(c) == (CHOOSE i \in 1..Len(Digits) : Digits[i] = c) - 1
CharCode(c) == CHOOSE i \in 1..Len(CharOrder) : CharOrder[i] = c

Min(a, b) == IF a < b THEN a ELSE b

\* $lt on two strings: the first differing character decides, a proper
\* prefix is smaller.
StrLess(a, b) ==
    \E k \in 1..(Min(Len(a), Len(b)) + 1) :
        /\ \A j \in 1..(k - 1) : a[j] = b[j]
        /\ \/ k > Len(a) /\ k <= Len(b)
           \/ k <= Len(a) /\ k <= Len(b) /\ CharCode(a[k]) < CharCode(b[k])

NoStr == <<>>                       \* an absent (or empty) string field

T0900 == <<"9", ":", "0", "0">>
T1000 == <<"1", "0", ":", "0", "0">>
T1100 == <<"1", "1", ":", "0", "0">>
Times == {T0900, T1000, T1100}
BadTime == <<"9", ":", "6", "0">>   \* rejected by the format check
TimeInputs == Times \cup {BadTime, NoStr}

\* /^([0-1]?[0-9]|2[0-3]):[0-5][0-9]$/
HourPartOk(h) ==
    \/ Len(h) = 1 /\ IsDigit(h[1])
    \/ Len(h) = 2 /\ h[1] \in {"0", "1"} /\ IsDigit(h[2])
    \/ Len(h) = 2 /\ h[1] = "2" /\ h[2] \in {"0", "1", "2", "3"}

TimeRegexTest(t) ==
    /\ Len(t) \in {4, 5}
    /\ t[Len(t) - 2] = ":"
    /\ t[Len(t) - 1] \in {"0", "1", "2", "3", "4", "5"}
    /\ IsDigit(t[Len(t)])
    /\ HourPartOk(SubSeq(t, 1, Len(t) - 3))

\* new Date(`2000-01-01 ${t}`) of a string the format check accepts, as
\* minutes since midnight.
DecimalVal(s) ==
    IF Len(s) = 1 THEN DigitVal(s[1]) ELSE 10 * DigitVal(s[1]) + DigitVal(s[2])
DateOf(t) ==
    60 * DecimalVal(SubSeq(t, 1, Len(t) - 3)) + DecimalVal(SubSeq(t, Len(t) - 1, Len(t)))

(***************************************************************************)
(* Timetable store.                                                        *)
(***************************************************************************)
validDays == {"Monday"}
BadDay == "Funday"
DayInputs == validDays \cup {BadDay, ""}
Subjects == {"Math"}
SubjectInputs == Subjects \cup {""}

\* An absent field of a request body is the empty string, falsy in JS.
Given(x) == x # ""
GivenTime(t) == Len(t) > 0

\* The $or clause of the conflict query on one stored entry.
TimeClash(e, startTime, endTime) ==
    /\ StrLess(e.startTime, endTime)
    /\ StrLess(startTime, e.endTime)

\* A conflict lookup that never finds an entry.
MutConflictingEntry(db, u, day, startTime, endTime, id) == FALSE

\* TimetableEntry.findOne({ userId, day, _id: { $ne: id }, $or: [...] }) finds
\* something; id 0 is no exclusion.
ConflictingEntry(db, u, day, startTime, endTime, id) ==
    \E e \in db : /\ e.userId = u
                  /\ e.day = day
                  /\ e.id # id
                  /\ TimeClash(e, startTime, endTime)

\* Schema validation of a TimetableEntry document (required, enum).
EntrySchemaOk(d) ==
    /\ Given(d.subject)
    /\ d.day \in validDays
    /\ GivenTime(d.startTime)
    /\ GivenTime(d.endTime)

\* timetableEntrySchema.pre('save'): "ok" or the error it raises.
PreSaveEntry(d) ==
    IF ~(TimeRegexTest(d.startTime) /\ TimeRegexTest(d.endTime)) THEN "Invalid time format"
    ELSE IF DateOf(d.startTime) >= DateOf(d.endTime) THEN "End time must be after start time"
    ELSE "ok"

Entry(id, u, b) ==
    [id |-> id, userId |-> u, subject |-> b.subject, day |-> b.day,
     startTime |-> b.startTime, endTime |-> b.endTime]

\* Request bodies of create and update.  Every combination of given, absent
\* and malformed times is tried with a valid or absent day; an absent subject
\* and an invalid day are tried with one pair of times.
EntryBodies ==
    {b \in [subject : SubjectInputs, day : DayInputs,
            startTime : TimeInputs, endTime : TimeInputs] :
        (b.subject = "" \/ b.day = BadDay) =>
            (b.startTime = T0900 /\ b.endTime = T1000 /\ (b.subject # "" \/ b.day \in validDays))}

\* Documents of a bulk request: bodies that pass the schema, and one that
\* does not.
BulkDocBodies == [subject : Subjects, day : validDays \cup {BadDay},
                  startTime : Times, endTime : Times]

\* router.post('/'): the response code and the collection afterwards.
CreateEntryResult(db, seq, u, b) ==
    IF ~(Given(b.subject) /\ Given(b.day) /\ GivenTime(b.startTime) /\ GivenTime(b.endTime))
    THEN [code |-> 400, db |-> db]
    ELSE IF b.day \notin validDays THEN [code |-> 400, db |-> db]
    ELSE IF ConflictingEntry(db, u, b.day, b.startTime, b.endTime, 0)
    THEN [code |-> 400, db |-> db]
    ELSE IF PreSaveEntry(Entry(seq + 1, u, b)) # "ok" THEN [code |-> 400, db |-> db]
    ELSE [code |-> 201, db |-> db \cup {Entry(seq + 1, u, b)}]

CreateEntry(cap) ==
    /\ scope = "timetable"
    /\ entrySeq < cap
    /\ \E u \in Users, b \in EntryBodies :
         LET r == CreateEntryResult(entries, entrySeq, u, b) IN
         /\ entries' = r.db
         /\ entrySeq' = IF r.code = 201 THEN entrySeq + 1 ELSE entrySeq
         /\ last' = [op |-> "createEntry", actor |-> u, target |-> 0, code |-> r.code]
    /\ UNCHANGED <<scope, now, skillVars, campusVars, raceVars, applied, accounts>>

\* The stored entry with the given id that belongs to u, as a set (empty when
\* TimetableEntry.findOne({ _id, userId }) finds nothing).
OwnEntry(db, id, u) == {e \in db : e.id = id /\ e.userId = u}

\* The field assignments of router.put('/:id') on the loaded document.
UpdatedEntry(e, b) ==
    [e EXCEPT !.subject = IF Given(b.subject) THEN b.subject ELSE @,
              !.day = IF Given(b.day) THEN b.day ELSE @,
              !.startTime = IF GivenTime(b.startTime) THEN b.startTime ELSE @,
              !.endTime = IF GivenTime(b.endTime) THEN b.endTime ELSE @]

\* The conflict lookup of router.put('/:id') runs only when the body carries
\* day, startTime and endTime together.
UpdateLookupRuns(b) == Given(b.day) /\ GivenTime(b.startTime) /\ GivenTime(b.endTime)

\* router.put('/:id')
UpdateEntryResult(db, id, u, b) ==
    IF OwnEntry(db, id, u) = {} THEN [code |-> 404, db |-> db]
    ELSE LET e == CHOOSE x \in OwnEntry(db, id, u) : TRUE
             d == UpdatedEntry(e, b) IN
         IF UpdateLookupRuns(b)
            /\ ConflictingEntry(db, u, b.day, b.startTime, b.endTime, id)
         THEN [code |-> 400, db |-> db]
         ELSE IF ~EntrySchemaOk(d) THEN [code |-> 500, db |-> db]
         ELSE IF PreSaveEntry(d) # "ok" THEN [code |-> 400, db |-> db]
         ELSE [code |-> 200, db |-> (db \ {e}) \cup {d}]

UpdateEntry ==
    /\ scope = "timetable"
    /\ \E u \in Users, id \in 1..MaxEntries, b \in EntryBodies :
         LET r == UpdateEntryResult(entries, id, u, b) IN
         /\ entries' = r.db
         /\ last' = [op |-> "updateEntry", actor |-> u, target |-> id, code |-> r.code]
    /\ UNCHANGED <<scope, now, entrySeq, skillVars, campusVars, raceVars, applied, accounts>>

\* router.delete('/:id')
DeleteEntryResult(db, id, u) ==
    IF OwnEntry(db, id, u) = {} THEN [code |-> 404, db |-> db]
    ELSE [code |-> 200, db |-> {e \in db : e.id # id}]

DeleteEntry ==
    /\ scope = "timetable"
    /\ \E u \in Users, id \in 1..MaxEntries :
         LET r == DeleteEntryResult(entries, id, u) IN
         /\ entries' = r.db
         /\ last' = [op |-> "deleteEntry", actor |-> u, target |-> id, code |-> r.code]
    /\ UNCHANGED <<scope, now, entrySeq, skillVars, campusVars, raceVars, applied, accounts>>

\* router.post('/bulk'): TimetableEntry.insertMany validates every document
\* against the schema and inserts all or none; it runs no save middleware and
\* no conflict lookup.
BulkDocs(seq, u, bs) == {Entry(seq + i, u, bs[i]) : i \in 1..Len(bs)}

BulkCreateResult(db, seq, u, bs) ==
    IF Len(bs) = 0 THEN [code |-> 400, db |-> db]
    ELSE IF \E d \in BulkDocs(seq, u, bs) : ~EntrySchemaOk(d) THEN [code |-> 500, db |-> db]
    ELSE [code |-> 201, db |-> db \cup BulkDocs(seq, u, bs)]

BulkBodies == UNION {[1..n -> BulkDocBodies] : n \in 0..MaxBulk}

BulkCreate(cap) ==
    /\ scope = "timetable"
    /\ \E u \in Users, bs \in BulkBodies :
         /\ entrySeq + Len(bs) <= cap
         /\ LET r == BulkCreateResult(entries, entrySeq, u, bs) IN
            /\ entries' = r.db
            /\ entrySeq' = IF r.code = 201 THEN entrySeq + Len(bs) ELSE entrySeq
            /\ last' = [op |-> "bulkCreate", actor |-> u, target |-> 0, code |-> r.code]
    /\ UNCHANGED <<scope, now, skillVars, campusVars, raceVars, applied, accounts>>

\* router.delete('/clear/all')
ClearAll ==
    /\ scope = "timetable"
    /\ \E u \in Users :
         /\ entries' = {e \in entries : e.userId # u}
         /\ last' = [op |-> "clearAll", actor |-> u, target |-> 0, code |-> 200]
    /\ UNCHANGED <<scope, now, entrySeq, skillVars, campusVars, raceVars, applied, accounts>>

(***************************************************************************)
(* Skill exchange: teacher profiles, contact requests, learning sessions   *)
(* and the notifications written beside them.                              *)
(***************************************************************************)
\* ObjectIds of PeerTeacher documents, in creation order.  They are never
\* equal to the ObjectId of a user.
TeacherIds == <<"t1", "t2">>
TeacherEmails == {"tutor@campus.edu"}

UpperCase == <<"J", "P">>
LowerCase == <<"j", "p">>
\* String.prototype.toLowerCase, character by character.
LowerChar(c) ==
    IF \E i \in 1..Len(UpperCase) : UpperCase[i] = c
    THEN LowerCase[CHOOSE i \in 1..Len(UpperCase) : UpperCase[i] = c]
    ELSE c
ToLowerCase(str) == [i \in 1..Len(str) |-> LowerChar(str[i])]
\* String.prototype.includes
Includes(str, sub) ==
    \E i \in 0..(Len(str) - Len(sub)) : SubSeq(str, i + 1, i + Len(sub)) = sub

SkillPython == <<"P", "y", "t", "h", "o", "n">>
SkillInputs == {<<"p", "y">>, <<"J", "a", "v", "a">>, NoStr}

SkillJava == <<"J", "a", "v", "a">>

\* A skill check that every requested skill passes.
MutOffersSkill(t, skill) == TRUE

\* teacher.skills.some(s => s.toLowerCase().includes(skill.toLowerCase()))
OffersSkill(t, skill) ==
    \E i \in 1..Len(t.skills) : Includes(ToLowerCase(t.skills[i]), ToLowerCase(skill))

\* The ratings the feedback handler lets through to updateRating.
Ratings == 1..5

RECURSIVE GCD(_, _)
GCD(a, b) == IF b = 0 THEN a ELSE GCD(b, a % b)
\* A fraction cut down to its integer part.
MutFraction(n, d) == [num |-> n \div d, den |-> 1]

\* A rating average as a fraction in lowest terms.
Fraction(n, d) == [num |-> n \div GCD(n, d), den |-> d \div GCD(n, d)]
ZeroRating == Fraction(0, 1)

\* An update that counts the rating and leaves the average as it was.
MutUpdateRating(t, newRating) == [t EXCEPT !.totalRatings = @ + 1]

\* peerTeacherSchema.methods.updateRating
UpdateRating(t, newRating) ==
    LET total == t.totalRatings + 1 IN
    [t EXCEPT !.totalRatings = total,
              !.rating = Fraction(t.rating.num * (total - 1) + newRating * t.rating.den,
                                  t.rating.den * total)]

\* teacher.updateRating(rating), awaited, on the profile as stored: one
\* rating applied with no other request in between.
ApplyRating ==
    /\ scope = "skill"
    /\ Len(applied) < MaxApplied
    /\ \E t \in teachers, rating \in Ratings :
         /\ teachers' = (teachers \ {t}) \cup {UpdateRating(t, rating)}
         /\ applied' = Append(applied, rating)
    /\ UNCHANGED <<scope, now, ttVars, campusVars, requests, sessions, notifications,
                   raceVars, accounts, last>>

\* The _id of a new PeerTeacher document: one no stored profile has.
FreshTeacherId(db) ==
    TeacherIds[CHOOSE i \in 1..Len(TeacherIds) :
                   /\ \A t \in db : t.id # TeacherIds[i]
                   /\ \A j \in 1..(i - 1) : \E t \in db : t.id = TeacherIds[j]]

\* router.post('/teachers'); an absent email stands for any missing field.
CreateTeacherResult(db, u, email) ==
    IF ~Given(email) THEN [code |-> 400, db |-> db]
    ELSE IF \E t \in db : t.email = email /\ t.isActive THEN [code |-> 400, db |-> db]
    ELSE [code |-> 201,
          db |-> db \cup {[id |-> FreshTeacherId(db), addedBy |-> u,
                           email |-> email, isActive |-> TRUE,
                           isVerified |-> (Role(u) = "admin"), skills |-> <<SkillPython>>,
                           rating |-> ZeroRating, totalRatings |-> 0, totalSessions |-> 0]}]

CreateTeacherWith(emails) ==
    /\ scope = "skill"
    /\ Cardinality(teachers) < Len(TeacherIds)
    /\ \E u \in Users, email \in emails \cup {""} :
         LET r == CreateTeacherResult(teachers, u, email) IN
         /\ teachers' = r.db
         /\ last' = [op |-> "createTeacher", actor |-> u, target |-> 0, code |-> r.code]
    /\ UNCHANGED <<scope, now, ttVars, campusVars, requests, sessions, notifications, raceVars, applied, accounts>>

CreateTeacher == CreateTeacherWith(TeacherEmails)

\* The skills and isActive of an update body, each absent (the empty set) or
\* given.
SkillsInputs == {{}, {<<SkillJava>>}}
ActiveInputs == {{}, {TRUE}, {FALSE}}

\* router.put('/teachers/:id'): the creator or an admin replaces the email and
\* the skills; only an admin changes isActive.
UpdateTeacherResult(db, u, id, email, skills, isActive) ==
    IF \A t \in db : t.id # id THEN [code |-> 404, db |-> db]
    ELSE LET t == CHOOSE x \in db : x.id = id IN
         IF t.addedBy # u /\ Role(u) # "admin" THEN [code |-> 403, db |-> db]
         ELSE LET t0 == IF Given(email) THEN [t EXCEPT !.email = email] ELSE t
                  t1 == IF skills # {}
                        THEN [t0 EXCEPT !.skills = CHOOSE x \in skills : TRUE]
                        ELSE t0
                  t2 == IF isActive # {} /\ Role(u) = "admin"
                        THEN [t1 EXCEPT !.isActive = CHOOSE x \in isActive : TRUE]
                        ELSE t1 IN
              [code |-> 200, db |-> (db \ {t}) \cup {t2}]

UpdateTeacherWith(emails) ==
    /\ scope = "skill"
    /\ \E u \in Users, i \in 1..Len(TeacherIds), email \in emails \cup {""},
          skills \in SkillsInputs, isActive \in ActiveInputs :
         LET r == UpdateTeacherResult(teachers, u, TeacherIds[i], email, skills, isActive) IN
         /\ teachers' = r.db
         /\ last' = [op |-> "updateTeacher", actor |-> u, target |-> 0, code |-> r.code]
    /\ UNCHANGED <<scope, now, ttVars, campusVars, requests, sessions, notifications,
                   raceVars, applied, accounts>>

UpdateTeacher == UpdateTeacherWith(TeacherEmails)

\* router.delete('/teachers/:id'): the creator or an admin removes the profile.
DeleteTeacherResult(db, u, id) ==
    IF \A t \in db : t.id # id THEN [code |-> 404, db |-> db]
    ELSE LET t == CHOOSE x \in db : x.id = id IN
         IF t.addedBy # u /\ Role(u) # "admin" THEN [code |-> 403, db |-> db]
         ELSE [code |-> 200, db |-> db \ {t}]

DeleteTeacher ==
    /\ scope = "skill"
    /\ \E u \in Users, i \in 1..Len(TeacherIds) :
         LET r == DeleteTeacherResult(teachers, u, TeacherIds[i]) IN
         /\ teachers' = r.db
         /\ last' = [op |-> "deleteTeacher", actor |-> u, target |-> 0, code |-> r.code]
    /\ UNCHANGED <<scope, now, ttVars, campusVars, requests, sessions, notifications,
                   raceVars, applied, accounts>>

\* router.patch('/teachers/:id/verify'), behind requireAdmin.
VerifyTeacherResult(db, u, id) ==
    IF ~RequireAdmin(u) THEN [code |-> 403, db |-> db]
    ELSE IF \A t \in db : t.id # id THEN [code |-> 404, db |-> db]
    ELSE LET t == CHOOSE x \in db : x.id = id IN
         [code |-> 200, db |-> (db \ {t}) \cup {[t EXCEPT !.isVerified = TRUE]}]

VerifyTeacher ==
    /\ scope = "skill"
    /\ \E u \in Users, i \in 1..Len(TeacherIds) :
         LET r == VerifyTeacherResult(teachers, u, TeacherIds[i]) IN
         /\ teachers' = r.db
         /\ last' = [op |-> "verifyTeacher", actor |-> u, target |-> 0, code |-> r.code]
    /\ UNCHANGED <<scope, now, ttVars, campusVars, requests, sessions, notifications,
                   raceVars, applied, accounts>>

\* new Notification({...}) of the skill-exchange router: the fields that
\* identify whom it is addressed to and what it is about.
Notification(recipient, type, title, relatedId) ==
    [recipient |-> recipient, type |-> type, title |-> title,
     relatedModel |-> "ContactRequest", relatedId |-> relatedId]

\* PeerTeacher.findById, as a set.
TeacherById(db, id) == {t \in db : t.id = id}
\* ContactRequest.findById, as a set.
RequestById(db, id) == {r \in db : r.id = id}

\* The state of the skill-exchange collections a handler leaves, with its
\* response code.
Outcome(code, ts, rs, ss, ns) ==
    [code |-> code, teachers |-> ts, requests |-> rs, sessions |-> ss, notifications |-> ns]
Rejected(code) == Outcome(code, teachers, requests, sessions, notifications)

\* router.post('/requests').  A missing message, requester name or requester
\* email is the same early return as a missing skill.
CreateRequestResult(u, teacherId, skill) ==
    IF ~(Given(teacherId) /\ GivenTime(skill)) THEN Rejected(400)
    ELSE IF TeacherById(teachers, teacherId) = {} THEN Rejected(404)
    ELSE LET t == CHOOSE x \in TeacherById(teachers, teacherId) : TRUE
             id == Cardinality(requests) + 1
             req == [id |-> id, teacherId |-> teacherId, requesterId |-> u,
                     skill |-> skill, status |-> "pending", sessionDate |-> {},
                     rating |-> {}, feedback |-> ""] IN
         IF ~t.isActive THEN Rejected(400)
         ELSE IF ~OffersSkill(t, skill) THEN Rejected(400)
         ELSE Outcome(201, teachers, requests \cup {req}, sessions,
                      Append(notifications,
                             Notification(t.addedBy, "contact_request",
                                          "New Learning Request", id)))

CreateRequest ==
    /\ scope = "skill"
    /\ Cardinality(requests) < MaxRequests
    /\ Len(notifications) < MaxNotifications
    /\ \E u \in Users, teacherId \in {TeacherIds[1], TeacherIds[2], ""}, skill \in SkillInputs :
         LET r == CreateRequestResult(u, teacherId, skill) IN
         /\ requests' = r.requests
         /\ notifications' = r.notifications
         /\ last' = [op |-> "createRequest", actor |-> u, target |-> 0, code |-> r.code]
    /\ UNCHANGED <<scope, now, ttVars, campusVars, teachers, sessions, raceVars, applied, accounts>>

\* The sessionDate of a request body: absent, a string new Date() cannot
\* parse, or a date (in clock ticks).
DateInputs ==
    {[kind |-> "absent", t |-> 0], [kind |-> "invalid", t |-> 0]}
        \cup {[kind |-> "date", t |-> d] : d \in 0..MaxTime}

validStatuses == {"pending", "accepted", "declined", "completed"}
StatusInputs == validStatuses \cup {"archived"}

\* A check that lets every caller update the status.
MutCanUpdate(u, t) == TRUE

\* canUpdate of router.patch('/requests/:id/status'): an admin, or the user
\* who added the teacher profile.  (An admin passes whether or not the
\* profile still exists; anyone else needs it to read addedBy.)
CanUpdate(u, t) == Role(u) = "admin" \/ t.addedBy = u

\* The title of the notification to the requester.
NotificationTitle(status) ==
    IF status = "accepted" THEN "Your learning request was accepted!"
    ELSE IF status = "declined" THEN "Your learning request was declined"
    ELSE "Your learning request was updated"

\* The notification to the requester, saved when request.requesterId is set;
\* requests are created with the requester's id and users are never deleted.
NotifyRequester(ns, req, status) ==
    Append(ns, Notification(req.requesterId, "contact_response",
                            NotificationTitle(status), req.id))

\* A lookup that never finds the session of a request.
MutExistingSession(ss, requestId) == {}

\* LearningSession.findOne({ contactRequestId }), as a set.
ExistingSession(ss, requestId) == {x \in ss : x.contactRequestId = requestId}

\* An element of learningSessionSchema.notes.
Note(content, u, at) == [content |-> content, addedBy |-> u, addedAt |-> at]

\* new LearningSession({...}) of the acceptance branch; cancelledBy and
\* cancelReason take their schema default, null.
NewSession(ss, req, u) ==
    [id |-> Cardinality(ss) + 1, teacherId |-> req.teacherId,
     learnerId |-> req.requesterId, contactRequestId |-> req.id,
     status |-> "scheduled", notes |-> <<Note("Session scheduled", u, now)>>,
     cancelledBy |-> {}, cancelReason |-> ""]

\* router.patch('/requests/:id/status').  After the request and the
\* notification are saved, a first acceptance saves the new session and then
\* evaluates `teacher.name`, a name the handler never declares: the
\* ReferenceError is answered with 500.
UpdateRequestStatusResult(u, id, status, date) ==
    IF RequestById(requests, id) = {} THEN Rejected(404)
    ELSE LET req == CHOOSE x \in RequestById(requests, id) : TRUE IN
         IF Role(u) # "admin" /\ TeacherById(teachers, req.teacherId) = {} THEN Rejected(500)
         ELSE IF Role(u) # "admin"
                 /\ \A t \in TeacherById(teachers, req.teacherId) : ~CanUpdate(u, t)
         THEN Rejected(403)
         ELSE IF status \notin validStatuses THEN Rejected(400)
         ELSE IF status = "accepted" /\ date.kind = "absent" THEN Rejected(400)
         ELSE IF status = "accepted" /\ date.kind = "invalid" THEN Rejected(400)
         ELSE IF status = "accepted" /\ date.t < now THEN Rejected(400)
         ELSE IF date.kind = "invalid" THEN Rejected(500)
         ELSE LET saved == [req EXCEPT !.status = status,
                                       !.sessionDate =
                                           IF date.kind = "date" THEN {date.t} ELSE @]
                  rs == (requests \ {req}) \cup {saved}
                  ns == NotifyRequester(notifications, saved, status) IN
              IF status = "accepted" /\ ExistingSession(sessions, id) = {}
              THEN IF TeacherById(teachers, req.teacherId) = {}
                   THEN Outcome(500, teachers, rs, sessions, ns)
                   ELSE Outcome(500, teachers, rs,
                                sessions \cup {NewSession(sessions, saved, u)}, ns)
              ELSE Outcome(200, teachers, rs, sessions, ns)

UpdateRequestStatus ==
    /\ scope = "skill"
    /\ Len(notifications) < MaxNotifications
    /\ \E u \in Users, id \in 1..MaxRequests, status \in StatusInputs, date \in DateInputs :
         LET r == UpdateRequestStatusResult(u, id, status, date) IN
         /\ requests' = r.requests
         /\ sessions' = r.sessions
         /\ notifications' = r.notifications
         /\ last' = IF r.code \in {200, 500}
                     THEN [op |-> "updateRequestStatus", actor |-> u, target |-> id,
                           code |-> r.code, status |-> status, date |-> date]
                     ELSE [op |-> "updateRequestStatus", actor |-> u, target |-> id,
                           code |-> r.code]
    /\ UNCHANGED <<scope, now, ttVars, campusVars, teachers, raceVars, applied, accounts>>

\* The rating of a feedback body: absent, a string that is no number, or a
\* number.
RatingInputs ==
    {[kind |-> "absent", v |-> 0], [kind |-> "text", v |-> 0]}
        \cup {[kind |-> "number", v |-> n] : n \in {0, 2, 5, 6}}
FeedbackInputs == {"", "Great session"}

\* `rating < 1 || rating > 5`: undefined and NaN compare false both ways.
RatingOutOfRange(rating) == rating.kind = "number" /\ (rating.v < 1 \/ rating.v > 5)

\* request.rating = rating; if (feedback) request.feedback = feedback.  An
\* absent rating unsets the field, which reads back as null.
RatedRequest(req, rating, feedback) ==
    [req EXCEPT !.rating = IF rating.kind = "number" THEN {rating.v} ELSE {},
                !.feedback = IF Given(feedback) THEN feedback ELSE @]

\* router.patch('/requests/:id/feedback').  A rating that is no number fails
\* the cast of request.save(); an absent rating passes it and then makes
\* updateRating compute NaN, which fails the cast of teacher.save().
SubmitFeedbackResult(u, id, rating, feedback) ==
    IF RequestById(requests, id) = {} THEN Rejected(404)
    ELSE LET req == CHOOSE x \in RequestById(requests, id) : TRUE IN
         IF req.requesterId # u THEN Rejected(403)
         ELSE IF req.status # "completed" THEN Rejected(400)
         ELSE IF RatingOutOfRange(rating) THEN Rejected(400)
         ELSE IF rating.kind = "text" THEN Rejected(500)
         ELSE LET rs == (requests \ {req}) \cup {RatedRequest(req, rating, feedback)}
                  ts == {IF t.id = req.teacherId
                         THEN [UpdateRating(t, rating.v) EXCEPT !.totalSessions = @ + 1]
                         ELSE t : t \in teachers} IN
              IF rating.kind = "absent" /\ TeacherById(teachers, req.teacherId) # {}
              THEN Outcome(500, teachers, rs, sessions, notifications)
              ELSE Outcome(200, ts, rs, sessions, notifications)

SubmitFeedback ==
    /\ scope = "skill"
    /\ \E u \in Users, id \in 1..MaxRequests, rating \in RatingInputs,
          feedback \in FeedbackInputs :
         /\ \A req \in RequestById(requests, id) :
                \A t \in TeacherById(teachers, req.teacherId) : t.totalRatings < MaxRatings
         /\ LET r == SubmitFeedbackResult(u, id, rating, feedback) IN
            /\ requests' = r.requests
            /\ teachers' = r.teachers
            /\ last' = [op |-> "submitFeedback", actor |-> u, target |-> id, code |-> r.code]
    /\ UNCHANGED <<scope, now, ttVars, campusVars, sessions, notifications, raceVars, applied, accounts>>

SessionStatusInputs == {"scheduled", "completed", "cancelled", "rescheduled", "missed"}

\* LearningSession.findById, as a set.
SessionById(ss, id) == {x \in ss : x.id = id}

\* The notes of a request body: absent, or a text.
NoteInputs == {"", "See you there"}

\* A participant check that lets every user through.
MutIsParticipant(x, u) == TRUE

\* The participant check of the learning-session handlers: the user's id is
\* compared with the session's teacherId, a PeerTeacher id, and its learnerId.
IsParticipant(x, u) == x.teacherId = u \/ x.learnerId = u

\* session.notes.push({content, addedBy: userId, addedAt: new Date()})
PushNote(x, content, u) == [x EXCEPT !.notes = Append(@, Note(content, u, now))]

\* A handler that stored session `saved` in place of x and then failed.
SessionSaved(code, x, saved) ==
    Outcome(code, teachers, requests, (sessions \ {x}) \cup {saved}, notifications)

\* router.put('/learning-sessions/:id/status').  The session is saved, then
\* the notification (no recipient, a type outside the enum) fails its schema
\* validation and the request is answered with 500.  The handler reads only
\* status and notes of the body.
UpdateSessionStatusResult(u, id, status, notes) ==
    IF status \notin {"scheduled", "completed", "cancelled", "rescheduled"} THEN Rejected(400)
    ELSE IF SessionById(sessions, id) = {} THEN Rejected(404)
    ELSE LET x == CHOOSE y \in SessionById(sessions, id) : TRUE IN
         IF ~IsParticipant(x, u) THEN Rejected(403)
         ELSE LET x1 == [x EXCEPT !.status = status]
                  saved == IF Given(notes) THEN PushNote(x1, notes, u) ELSE x1 IN
              SessionSaved(500, x, saved)

UpdateSessionStatus ==
    /\ scope = "skill"
    /\ \E u \in Users, id \in 1..MaxRequests, status \in SessionStatusInputs,
          notes \in NoteInputs :
         /\ Given(notes) => \A x \in SessionById(sessions, id) : Len(x.notes) < MaxNotes
         /\ LET r == UpdateSessionStatusResult(u, id, status, notes) IN
            /\ sessions' = r.sessions
            /\ last' = [op |-> "updateSessionStatus", actor |-> u, target |-> id,
                        code |-> r.code]
    /\ UNCHANGED <<scope, now, ttVars, campusVars, teachers, requests, notifications, raceVars, applied, accounts>>

\* The scheduledDate of a request body: absent, a string new Date() cannot
\* parse, or a date.
ScheduledDateInputs == {"absent", "invalid", "date"}

\* router.put('/learning-sessions/:id').  An unparsable scheduledDate fails
\* the cast of session.save(); otherwise the session is saved and the call
\* of Notification.createSessionNotification, a static models/Notification.js
\* does not define, throws: the request is answered with 500.
UpdateSessionDetailsResult(u, id, scheduledDate, notes) ==
    IF SessionById(sessions, id) = {} THEN Rejected(404)
    ELSE LET x == CHOOSE y \in SessionById(sessions, id) : TRUE IN
         IF ~IsParticipant(x, u) THEN Rejected(403)
         ELSE IF scheduledDate = "invalid" THEN Rejected(500)
         ELSE LET x1 == IF Given(notes) THEN PushNote(x, notes, u) ELSE x
                  saved == IF scheduledDate = "date" /\ x1.status # "rescheduled"
                           THEN [x1 EXCEPT !.status = "rescheduled"]
                           ELSE x1 IN
              SessionSaved(500, x, saved)

UpdateSessionDetails ==
    /\ scope = "skill"
    /\ \E u \in Users, id \in 1..MaxRequests, scheduledDate \in ScheduledDateInputs,
          notes \in NoteInputs :
         /\ Given(notes) => \A x \in SessionById(sessions, id) : Len(x.notes) < MaxNotes
         /\ LET r == UpdateSessionDetailsResult(u, id, scheduledDate, notes) IN
            /\ sessions' = r.sessions
            /\ last' = [op |-> "updateSessionDetails", actor |-> u, target |-> id,
                        code |-> r.code]
    /\ UNCHANGED <<scope, now, ttVars, campusVars, teachers, requests, notifications, raceVars, applied, accounts>>

\* router.post('/learning-sessions/:id/feedback').  The rating is stored in
\* learnerRating or teacherRating, fields the model leaves out; a rating
\* that is no number fails the cast of session.save().  `!rating` rejects
\* an absent rating and 0.  The note is pushed and the session saved before
\* createSessionNotification throws.
SessionFeedbackResult(u, id, rating) ==
    IF rating.kind = "absent" \/ RatingOutOfRange(rating) THEN Rejected(400)
    ELSE IF SessionById(sessions, id) = {} THEN Rejected(404)
    ELSE LET x == CHOOSE y \in SessionById(sessions, id) : TRUE IN
         IF ~IsParticipant(x, u) THEN Rejected(403)
         ELSE IF rating.kind = "text" THEN Rejected(500)
         ELSE SessionSaved(500, x,
                           PushNote(x, IF x.learnerId = u
                                       THEN "Learner submitted feedback"
                                       ELSE "Teacher submitted feedback", u))

SessionFeedback ==
    /\ scope = "skill"
    /\ \E u \in Users, id \in 1..MaxRequests, rating \in RatingInputs :
         /\ \A x \in SessionById(sessions, id) : Len(x.notes) < MaxNotes
         /\ LET r == SessionFeedbackResult(u, id, rating) IN
            /\ sessions' = r.sessions
            /\ last' = [op |-> "sessionFeedback", actor |-> u, target |-> id,
                        code |-> r.code]
    /\ UNCHANGED <<scope, now, ttVars, campusVars, teachers, requests, notifications, raceVars, applied, accounts>>

\* The status of a body of skillExchange.js.new: absent, or a status.
NewStatusInputs == {"", "completed", "cancelled", "missed", "rescheduled"}
\* Its notes: absent (the empty set), or an array of {content, addedBy}.
NoteListInputs ==
    {{}, {<<>>}, {<<[content |-> "Rewritten", addedBy |-> "root"]>>}}
CancelReasonInputs == {"", "Busy"}

\* new Notification({...}) of router.put('/sessions/:id').
SessionNotification(recipient, type, title, relatedId) ==
    [recipient |-> recipient, type |-> type, title |-> title,
     relatedModel |-> "LearningSession", relatedId |-> relatedId]

\* router.put('/sessions/:id') of skillExchange.js.new.  The learner, the
\* owner of the teacher profile and an admin pass; a status of the list is
\* assigned, a cancellation records cancelledBy and, when given, the reason;
\* notes of the body replace the stored list; a completion or cancellation by
\* the teacher or the learner is notified to the other.
UpdateSessionResult(u, id, status, notes, cancelReason) ==
    IF SessionById(sessions, id) = {} THEN Rejected(404)
    ELSE LET x == CHOOSE y \in SessionById(sessions, id) : TRUE
             teacher == TeacherById(teachers, x.teacherId)
             isLearner == x.learnerId = u
             isTeacher == \E t \in teacher : t.addedBy = u
             isAdmin == Role(u) = "admin" IN
         IF ~isLearner /\ ~isTeacher /\ ~isAdmin THEN Rejected(403)
         ELSE LET x1 == IF status \in {"scheduled", "completed", "cancelled", "missed"}
                        THEN [x EXCEPT !.status = status]
                        ELSE x
                  x2 == IF status = "cancelled"
                        THEN [x1 EXCEPT !.cancelledBy = {u},
                                        !.cancelReason = IF Given(cancelReason)
                                                         THEN cancelReason ELSE @]
                        ELSE x1
                  saved == IF notes = {} THEN x2
                           ELSE LET body == CHOOSE n \in notes : TRUE IN
                                [x2 EXCEPT !.notes =
                                    [k \in 1..Len(body) |->
                                        Note(body[k].content, body[k].addedBy, now)]]
                  ss == (sessions \ {x}) \cup {saved}
                  recipient == IF isTeacher THEN {x.learnerId}
                               ELSE IF isLearner THEN {t.addedBy : t \in teacher}
                               ELSE {}
                  ns == IF recipient = {} \/ status \notin {"completed", "cancelled"}
                        THEN notifications
                        ELSE Append(notifications,
                                    SessionNotification(
                                        CHOOSE r \in recipient : TRUE,
                                        IF status = "completed" THEN "session_feedback"
                                        ELSE "session_cancelled",
                                        IF status = "completed" THEN "Session Completed"
                                        ELSE "Session Cancelled", id)) IN
              IF Given(status) /\ ~isTeacher /\ isLearner /\ teacher = {}
              THEN Outcome(500, teachers, requests, ss, notifications)
              ELSE Outcome(200, teachers, requests, ss, ns)

UpdateSession ==
    /\ scope = "skill"
    /\ Len(notifications) < MaxNotifications
    /\ \E u \in Users, id \in 1..MaxRequests, status \in NewStatusInputs,
          notes \in NoteListInputs, cancelReason \in CancelReasonInputs :
         LET r == UpdateSessionResult(u, id, status, notes, cancelReason) IN
         /\ sessions' = r.sessions
         /\ notifications' = r.notifications
         /\ last' = [op |-> "updateSession", actor |-> u, target |-> id, code |-> r.code]
    /\ UNCHANGED <<scope, now, ttVars, campusVars, teachers, requests, raceVars, applied, accounts>>

\* The server clock advances.
Tick ==
    /\ scope \in {"skill", "complaints"}
    /\ now < MaxTime
    /\ now' = now + 1
    /\ UNCHANGED <<scope, ttVars, skillVars, campusVars, last, raceVars, applied, accounts>>

(***************************************************************************)
(* Lost-and-found registry (the lostFound router and lostFoundItemSchema). *)
(* Every modelled request carries a description and a location.            *)
(***************************************************************************)
ItemTitles == {"Keys", "Wallet"}
validItemCategories ==
    {"Electronics", "Clothing", "Accessories", "Books", "Sports Equipment", "Other"}
itemStatuses == {"active", "resolved", "expired"}

\* Bodies of POST /: a title, a category and a type, each possibly missing or
\* outside its list.
ItemBodies ==
    {b \in [title : {"", "Keys"}, category : {"", "Other", "Food"},
            type : {"", "lost", "stolen"}] :
        Cardinality({f \in {"title", "category", "type"} :
                        b[f] \in {"", "Food", "stolen"}}) <= 1}

\* Bodies of PUT /:id: a new title and a new status, each possibly absent.
ItemUpdates == [title : {"", "Wallet"}, status : {"", "resolved", "gone"}]

Item(id, u, b) ==
    [id |-> id, reportedBy |-> u, title |-> b.title, category |-> b.category,
     type |-> b.type, status |-> "active", resolvedAt |-> {}]

\* Schema validation of a LostFoundItem on save.
ItemSchemaOk(i) ==
    /\ i.category \in validItemCategories
    /\ i.type \in {"lost", "found"}
    /\ i.status \in itemStatuses

ItemById(db, id) == {i \in db : i.id = id}

\* A handler that lets every caller through.
MutMayChangeItem(u, i) == TRUE

\* The reporter-or-admin check of the lostFound update, delete and resolve
\* handlers.
MayChangeItem(u, i) == i.reportedBy = u \/ Role(u) = "admin"

\* router.post('/') of the lostFound router.
CreateItemResult(db, seq, u, b) ==
    IF ~(Given(b.title) /\ Given(b.category) /\ Given(b.type))
    THEN [code |-> 400, db |-> db]
    ELSE IF b.type \notin {"lost", "found"} THEN [code |-> 400, db |-> db]
    ELSE IF b.category \notin validItemCategories THEN [code |-> 400, db |-> db]
    ELSE [code |-> 201, db |-> db \cup {Item(seq + 1, u, b)}]

CreateItem ==
    /\ scope = "lostfound"
    /\ itemSeq < MaxOwned
    /\ \E u \in Users, b \in ItemBodies :
         LET r == CreateItemResult(items, itemSeq, u, b) IN
         /\ items' = r.db
         /\ itemSeq' = IF r.code = 201 THEN itemSeq + 1 ELSE itemSeq
         /\ last' = [op |-> "createItem", actor |-> u, target |-> 0, code |-> r.code]
    /\ UNCHANGED <<scope, now, ttVars, skillVars, complaints, complaintSeq, raceVars, applied, accounts>>

\* The field assignments of the lostFound router.put('/:id'): the status is
\* taken from the body only when the caller is an admin.
UpdatedItem(i, u, b) ==
    LET setsStatus == Given(b.status) /\ Role(u) = "admin" IN
    [i EXCEPT !.title = IF Given(b.title) THEN b.title ELSE @,
              !.status = IF setsStatus THEN b.status ELSE @,
              !.resolvedAt = IF setsStatus /\ b.status = "resolved" THEN {now} ELSE @]

\* router.put('/:id') of the lostFound router.
UpdateItemResult(db, id, u, b) ==
    IF ItemById(db, id) = {} THEN [code |-> 404, db |-> db]
    ELSE LET i == CHOOSE x \in ItemById(db, id) : TRUE IN
         IF ~MayChangeItem(u, i) THEN [code |-> 403, db |-> db]
         ELSE IF ~ItemSchemaOk(UpdatedItem(i, u, b)) THEN [code |-> 500, db |-> db]
         ELSE [code |-> 200, db |-> (db \ {i}) \cup {UpdatedItem(i, u, b)}]

UpdateItem ==
    /\ scope = "lostfound"
    /\ \E u \in Users, id \in 1..MaxOwned, b \in ItemUpdates :
         LET r == UpdateItemResult(items, id, u, b) IN
         /\ items' = r.db
         /\ last' = [op |-> "updateItem", actor |-> u, target |-> id, code |-> r.code]
    /\ UNCHANGED <<scope, now, ttVars, skillVars, itemSeq, complaints, complaintSeq, raceVars, applied, accounts>>

\* router.delete('/:id') of the lostFound router.
DeleteItemResult(db, id, u) ==
    IF ItemById(db, id) = {} THEN [code |-> 404, db |-> db]
    ELSE IF \E i \in ItemById(db, id) : ~MayChangeItem(u, i) THEN [code |-> 403, db |-> db]
    ELSE [code |-> 200, db |-> db \ ItemById(db, id)]

DeleteItem ==
    /\ scope = "lostfound"
    /\ \E u \in Users, id \in 1..MaxOwned :
         LET r == DeleteItemResult(items, id, u) IN
         /\ items' = r.db
         /\ last' = [op |-> "deleteItem", actor |-> u, target |-> id, code |-> r.code]
    /\ UNCHANGED <<scope, now, ttVars, skillVars, itemSeq, complaints, complaintSeq, raceVars, applied, accounts>>

\* router.patch('/:id/resolve') of the lostFound router.
ResolveItemResult(db, id, u) ==
    IF ItemById(db, id) = {} THEN [code |-> 404, db |-> db]
    ELSE LET i == CHOOSE x \in ItemById(db, id) : TRUE IN
         IF ~MayChangeItem(u, i) THEN [code |-> 403, db |-> db]
         ELSE [code |-> 200,
               db |-> (db \ {i})
                         \cup {[i EXCEPT !.status = "resolved", !.resolvedAt = {now}]}]

ResolveItem ==
    /\ scope = "lostfound"
    /\ \E u \in Users, id \in 1..MaxOwned :
         LET r == ResolveItemResult(items, id, u) IN
         /\ items' = r.db
         /\ last' = [op |-> "resolveItem", actor |-> u, target |-> id, code |-> r.code]
    /\ UNCHANGED <<scope, now, ttVars, skillVars, itemSeq, complaints, complaintSeq, raceVars, applied, accounts>>

(***************************************************************************)
(* Complaint tracker (the complaints router and complaintSchema).  Every   *)
(* modelled request carries a description and names no assignee.           *)
(***************************************************************************)
\* A category list that also admits "Noise".
MutvalidCategories ==
    {"Water", "Electricity", "Cleaning", "Maintenance", "Internet", "Security", "Other",
     "Noise"}

validCategories ==
    {"Water", "Electricity", "Cleaning", "Maintenance", "Internet", "Security", "Other"}
complaintStatuses == {"pending", "in-progress", "resolved"}

\* Bodies of POST /: a title and a category, each possibly missing; the
\* category possibly outside the list.
ComplaintBodies ==
    {b \in [title : {"", "Leak"}, category : {"", "Water", "Noise"}] :
        Given(b.title) \/ b.category = "Water"}

\* Statuses an admin sends: the two that move a complaint on, and one outside
\* the list.
ComplaintStatusInputs == {"in-progress", "resolved", "closed"}
ComplaintTitleInputs == {"", "Flood"}
MessageInputs == {"", "Any news?"}

Complaint(id, u, b) ==
    [id |-> id, submittedBy |-> u, title |-> b.title, category |-> b.category,
     status |-> "pending", comments |-> <<>>, resolvedAt |-> {}]

ComplaintById(db, id) == {c \in db : c.id = id}

\* complaintSchema.pre('save'): stamps resolvedAt the first time the status
\* is saved as resolved.
PreSaveComplaint(old, c) ==
    IF c.status # old.status /\ c.status = "resolved" /\ c.resolvedAt = {}
    THEN [c EXCEPT !.resolvedAt = {now}]
    ELSE c

\* router.post('/') of the complaints router.
CreateComplaintResult(db, seq, u, b) ==
    IF ~(Given(b.title) /\ Given(b.category)) THEN [code |-> 400, db |-> db]
    ELSE IF b.category \notin validCategories THEN [code |-> 400, db |-> db]
    ELSE [code |-> 201, db |-> db \cup {Complaint(seq + 1, u, b)}]

CreateComplaint ==
    /\ scope = "complaints"
    /\ complaintSeq < MaxOwned
    /\ \E u \in Users, b \in ComplaintBodies :
         LET r == CreateComplaintResult(complaints, complaintSeq, u, b) IN
         /\ complaints' = r.db
         /\ complaintSeq' = IF r.code = 201 THEN complaintSeq + 1 ELSE complaintSeq
         /\ last' = [op |-> "createComplaint", actor |-> u, target |-> 0, code |-> r.code]
    /\ UNCHANGED <<scope, now, ttVars, skillVars, items, itemSeq, raceVars, applied, accounts>>

\* router.patch('/:id/status') of the complaints router, behind requireAdmin.
UpdateComplaintStatusResult(db, id, u, status) ==
    IF ~RequireAdmin(u) THEN [code |-> 403, db |-> db]
    ELSE IF ComplaintById(db, id) = {} THEN [code |-> 404, db |-> db]
    ELSE IF status \notin complaintStatuses THEN [code |-> 400, db |-> db]
    ELSE LET c == CHOOSE x \in ComplaintById(db, id) : TRUE IN
         [code |-> 200,
          db |-> (db \ {c}) \cup {PreSaveComplaint(c, [c EXCEPT !.status = status])}]

UpdateComplaintStatus ==
    /\ scope = "complaints"
    /\ \E u \in Users, id \in 1..MaxOwned, status \in ComplaintStatusInputs :
         LET r == UpdateComplaintStatusResult(complaints, id, u, status) IN
         /\ complaints' = r.db
         /\ last' = [op |-> "updateComplaintStatus", actor |-> u, target |-> id,
                     code |-> r.code]
    /\ UNCHANGED <<scope, now, ttVars, skillVars, items, itemSeq, complaintSeq, raceVars, applied, accounts>>

\* The comments stored in the collection, each named by its complaint and
\* its position.
StoredComments(db) == UNION {{<<c.id, n>> : n \in 1..Len(c.comments)} : c \in db}

\* router.post('/:id/comments') of the complaints router.
AddCommentResult(db, id, u, message) ==
    IF ~Given(message) THEN [code |-> 400, db |-> db]
    ELSE IF ComplaintById(db, id) = {} THEN [code |-> 404, db |-> db]
    ELSE LET c == CHOOSE x \in ComplaintById(db, id) : TRUE IN
         IF Role(u) # "admin" /\ c.submittedBy # u THEN [code |-> 403, db |-> db]
         ELSE [code |-> 201,
               db |-> (db \ {c})
                         \cup {[c EXCEPT !.comments =
                                   Append(@, [author |-> u, message |-> message])]}]

AddComment ==
    /\ scope = "complaints"
    /\ \E u \in Users, id \in 1..MaxOwned, message \in MessageInputs :
         /\ Cardinality(StoredComments(complaints)) < MaxComments
         /\ LET r == AddCommentResult(complaints, id, u, message) IN
            /\ complaints' = r.db
            /\ last' = [op |-> "addComment", actor |-> u, target |-> id, code |-> r.code]
    /\ UNCHANGED <<scope, now, ttVars, skillVars, items, itemSeq, complaintSeq, raceVars, applied, accounts>>

\* router.put('/:id') of the complaints router: the submitter only, and only
\* while the complaint is not resolved.
UpdateComplaintResult(db, id, u, title) ==
    IF ComplaintById(db, id) = {} THEN [code |-> 404, db |-> db]
    ELSE LET c == CHOOSE x \in ComplaintById(db, id) : TRUE IN
         IF c.submittedBy # u THEN [code |-> 403, db |-> db]
         ELSE IF c.status = "resolved" THEN [code |-> 400, db |-> db]
         ELSE [code |-> 200,
               db |-> (db \ {c})
                         \cup {[c EXCEPT !.title = IF Given(title) THEN title ELSE @]}]

UpdateComplaint ==
    /\ scope = "complaints"
    /\ \E u \in Users, id \in 1..MaxOwned, title \in ComplaintTitleInputs :
         LET r == UpdateComplaintResult(complaints, id, u, title) IN
         /\ complaints' = r.db
         /\ last' = [op |-> "updateComplaint", actor |-> u, target |-> id, code |-> r.code]
    /\ UNCHANGED <<scope, now, ttVars, skillVars, items, itemSeq, complaintSeq, raceVars, applied, accounts>>

\* router.delete('/:id') of the complaints router.
DeleteComplaintResult(db, id, u) ==
    IF ComplaintById(db, id) = {} THEN [code |-> 404, db |-> db]
    ELSE IF \E c \in ComplaintById(db, id) : c.submittedBy # u /\ Role(u) # "admin"
    THEN [code |-> 403, db |-> db]
    ELSE [code |-> 200, db |-> db \ ComplaintById(db, id)]

DeleteComplaint ==
    /\ scope = "complaints"
    /\ \E u \in Users, id \in 1..MaxOwned :
         LET r == DeleteComplaintResult(complaints, id, u) IN
         /\ complaints' = r.db
         /\ last' = [op |-> "deleteComplaint", actor |-> u, target |-> id, code |-> r.code]
    /\ UNCHANGED <<scope, now, ttVars, skillVars, items, itemSeq, complaintSeq, raceVars, applied, accounts>>

(***************************************************************************)
(* The complaints router with attachments: its update by id goes through   *)
(* Complaint.findByIdAndUpdate, which runs the schema validators of the    *)
(* fields it sets and no pre('save') hook.                                 *)
(***************************************************************************)
UpdatableFields ==
    {"title", "description", "status", "priority", "category", "assignedTo", "location",
     "estimatedResolution"}

\* A field list that lets every caller set every field.
MutAllowedUpdates(u) == UpdatableFields

\* allowedUpdates of router.put('/:id')
AllowedUpdates(u) ==
    IF Role(u) = "admin" THEN UpdatableFields
    ELSE {"title", "description", "category", "location"}

\* The status and the category of an update body; "" stands for a field the
\* body does not carry.
StatusUpdateInputs == {""} \cup ComplaintStatusInputs
CategoryUpdateInputs == {"", "Electricity", "Noise"}

\* The $set document: the allowed fields the body carries.
Updates(u, title, status, category) ==
    {f \in AllowedUpdates(u) :
        \/ f = "title" /\ Given(title)
        \/ f = "status" /\ Given(status)
        \/ f = "category" /\ Given(category)}

\* router.put('/:id') of the complaints router with attachments.  A value
\* outside an enum fails the update validators: nothing is written and the
\* error is answered with 500.
UpdateComplaintByIdResult(db, id, u, title, status, category) ==
    IF ComplaintById(db, id) = {} THEN [code |-> 404, db |-> db]
    ELSE LET c == CHOOSE x \in ComplaintById(db, id) : TRUE
             updates == Updates(u, title, status, category) IN
         IF Role(u) # "admin" /\ c.submittedBy # u THEN [code |-> 403, db |-> db]
         ELSE IF "status" \in updates /\ status \notin complaintStatuses
         THEN [code |-> 500, db |-> db]
         ELSE IF "category" \in updates /\ category \notin validCategories
         THEN [code |-> 500, db |-> db]
         ELSE [code |-> 200,
               db |-> (db \ {c})
                         \cup {[c EXCEPT
                                   !.title = IF "title" \in updates THEN title ELSE @,
                                   !.status = IF "status" \in updates THEN status ELSE @,
                                   !.category = IF "category" \in updates
                                                THEN category ELSE @]}]

UpdateComplaintById ==
    /\ scope = "complaints"
    /\ \E u \in Users, id \in 1..MaxOwned, title \in ComplaintTitleInputs,
          status \in StatusUpdateInputs, category \in CategoryUpdateInputs :
         LET r == UpdateComplaintByIdResult(complaints, id, u, title, status, category) IN
         /\ complaints' = r.db
         /\ last' = [op |-> "updateComplaintById", actor |-> u, target |-> id,
                     code |-> r.code]
    /\ UNCHANGED <<scope, now, ttVars, skillVars, items, itemSeq, complaintSeq, raceVars, applied, accounts>>

(***************************************************************************)
(* Concurrent create requests.  A handler runs up to its next await, then  *)
(* another request may run: router.post('/') awaits the conflict lookup    *)
(* and then the save.                                                      *)
(***************************************************************************)
\* router.post('/') up to and including the conflict lookup: the code of an
\* early return, or 0 when the handler goes on to build and save the entry.
CreateChecks(db, u, b) ==
    IF ~(Given(b.subject) /\ Given(b.day) /\ GivenTime(b.startTime) /\ GivenTime(b.endTime))
    THEN 400
    ELSE IF b.day \notin validDays THEN 400
    ELSE IF ConflictingEntry(db, u, b.day, b.startTime, b.endTime, 0) THEN 400
    ELSE 0

\* The i-th element of a sequence taken out.
RemoveAt(seq, i) == SubSeq(seq, 1, i - 1) \o SubSeq(seq, i + 1, Len(seq))

\* Bodies of the concurrent create requests: every field given.
RaceBodies == [subject : Subjects, day : validDays, startTime : Times, endTime : Times]

\* A create request runs its checks and its lookup; `seen` keeps the ids the
\* lookup could see.
CreateLookup ==
    /\ scope = "timetable"
    /\ Len(pending) < MaxInFlight
    /\ \E u \in Students, b \in RaceBodies :
         IF CreateChecks(entries, u, b) = 0
         THEN /\ pending' = Append(pending, [userId |-> u, body |-> b,
                                             seen |-> {e.id : e \in entries}])
              /\ UNCHANGED last
         ELSE /\ last' = [op |-> "createEntry", actor |-> u, target |-> 0,
                          code |-> CreateChecks(entries, u, b)]
              /\ UNCHANGED pending
    /\ UNCHANGED <<scope, now, ttVars, skillVars, campusVars, feedbacks, accepting, applied, accounts>>

\* A create request that passed its lookup saves its entry (entry.save(),
\* with the pre-save hook) and answers.
CreateSave ==
    /\ scope = "timetable"
    /\ entrySeq < MaxEntries
    /\ \E i \in 1..Len(pending) :
         LET p == pending[i]
             d == Entry(entrySeq + 1, p.userId, p.body) IN
         /\ pending' = RemoveAt(pending, i)
         /\ IF PreSaveEntry(d) # "ok"
            THEN /\ last' = [op |-> "createEntry", actor |-> p.userId, target |-> 0,
                             code |-> 400]
                 /\ UNCHANGED ttVars
            ELSE /\ entries' = entries \cup {d}
                 /\ entrySeq' = entrySeq + 1
                 /\ last' = [op |-> "createEntry", actor |-> p.userId, target |-> 0,
                             code |-> 201]
    /\ UNCHANGED <<scope, now, skillVars, campusVars, feedbacks, accepting, applied, accounts>>

(***************************************************************************)
(* Concurrent feedback requests.  router.patch('/requests/:id/feedback')   *)
(* reads the teacher profile, then awaits the save inside updateRating     *)
(* (rating, totalRatings) and the save of totalSessions; each save writes  *)
(* the values computed from the document the handler read.                 *)
(***************************************************************************)
\* The early returns of the feedback handler and the cast failure of
\* request.save(): a response code, or 0 when the handler goes on.
FeedbackChecks(u, id, rating) ==
    IF RequestById(requests, id) = {} THEN 404
    ELSE LET req == CHOOSE x \in RequestById(requests, id) : TRUE IN
         IF req.requesterId # u THEN 403
         ELSE IF req.status # "completed" THEN 400
         ELSE IF RatingOutOfRange(rating) THEN 400
         ELSE IF rating.kind = "text" THEN 500
         ELSE 0

\* A feedback request runs its checks, saves the request and reads the
\* teacher profile (PeerTeacher.findById) into `read`.
FeedbackStart ==
    /\ scope = "skill"
    /\ Len(feedbacks) < MaxInFlight
    /\ \E u \in Users, id \in 1..MaxRequests, rating \in RatingInputs :
         IF FeedbackChecks(u, id, rating) = 0
         THEN LET req == CHOOSE x \in RequestById(requests, id) : TRUE IN
              /\ requests' = (requests \ {req}) \cup {RatedRequest(req, rating, "")}
              /\ feedbacks' = Append(feedbacks,
                                     [actor |-> u, id |-> id, rating |-> rating,
                                      read |-> TeacherById(teachers, req.teacherId),
                                      phase |-> "rate", code |-> 0])
              /\ UNCHANGED last
         ELSE /\ last' = [op |-> "submitFeedback", actor |-> u, target |-> id,
                          code |-> FeedbackChecks(u, id, rating)]
              /\ UNCHANGED <<requests, feedbacks>>
    /\ UNCHANGED <<scope, now, ttVars, campusVars, teachers, sessions, notifications, pending, accepting, applied, accounts>>

\* The stored teacher profile with the fields a save writes replaced.
SaveRating(db, doc) ==
    {IF t.id = doc.id THEN [t EXCEPT !.totalRatings = doc.totalRatings, !.rating = doc.rating]
     ELSE t : t \in db}
SaveSessions(db, doc) ==
    {IF t.id = doc.id THEN [t EXCEPT !.totalSessions = doc.totalSessions] ELSE t : t \in db}

\* await teacher.updateRating(rating): the handler's document is updated and
\* saved.  Without a teacher the handler answers at once; an absent rating
\* makes the average NaN and the save fail.
FeedbackRate ==
    /\ scope = "skill"
    /\ \E i \in 1..Len(feedbacks) :
         LET p == feedbacks[i] IN
         /\ p.phase = "rate"
         /\ IF p.read = {} \/ p.rating.kind = "absent"
            THEN LET code == IF p.read = {} THEN 200 ELSE 500 IN
                 /\ feedbacks' = [feedbacks EXCEPT ![i].phase = "done", ![i].code = code]
                 /\ last' = [op |-> "submitFeedback", actor |-> p.actor, target |-> p.id,
                             code |-> code]
                 /\ UNCHANGED teachers
            ELSE LET doc == UpdateRating(CHOOSE t \in p.read : TRUE, p.rating.v) IN
                 /\ teachers' = SaveRating(teachers, doc)
                 /\ feedbacks' = [feedbacks EXCEPT ![i].phase = "count", ![i].read = {doc}]
                 /\ UNCHANGED last
    /\ UNCHANGED <<scope, now, ttVars, campusVars, requests, sessions, notifications, pending, accepting, applied, accounts>>

\* teacher.totalSessions += 1; await teacher.save(); res.json(...)
FeedbackCount ==
    /\ scope = "skill"
    /\ \E i \in 1..Len(feedbacks) :
         LET p == feedbacks[i]
             doc == CHOOSE t \in p.read : TRUE IN
         /\ p.phase = "count"
         /\ teachers' = SaveSessions(teachers, [doc EXCEPT !.totalSessions = @ + 1])
         /\ feedbacks' = [feedbacks EXCEPT ![i].phase = "done", ![i].code = 200]
         /\ last' = [op |-> "submitFeedback", actor |-> p.actor, target |-> p.id, code |-> 200]
    /\ UNCHANGED <<scope, now, ttVars, campusVars, requests, sessions, notifications, pending, accepting, applied, accounts>>

(***************************************************************************)
(* Initial state and specifications.                                       *)
(***************************************************************************)
Empty ==
    /\ now = 0
    /\ entries = {}
    /\ entrySeq = 0
    /\ teachers = {}
    /\ requests = {}
    /\ sessions = {}
    /\ notifications = <<>>
    /\ items = {}
    /\ itemSeq = 0
    /\ complaints = {}
    /\ complaintSeq = 0
    /\ pending = <<>>
    /\ feedbacks = <<>>
    /\ accepting = <<>>
    /\ applied = <<>>
    /\ accounts = {}
    /\ last = [op |-> "none", actor |-> "none", target |-> 0, code |-> 0]

InitTimetable == scope = "timetable" /\ Empty
InitSkill == scope = "skill" /\ Empty
InitAccess == scope \in {"timetable", "lostfound", "complaints"} /\ Empty

NextTimetable ==
    \/ CreateEntry(MaxEntries)
    \/ UpdateEntry
    \/ DeleteEntry
    \/ BulkCreate(MaxEntries)
    \/ ClearAll

SpecTimetable == InitTimetable /\ [][NextTimetable]_vars

\* The requests that touch one stored document of a user: timetable entries,
\* lost-and-found items and complaints.
NextAccess ==
    \/ CreateEntry(MaxOwned)
    \/ UpdateEntry
    \/ DeleteEntry
    \/ ClearAll
    \/ CreateItem
    \/ UpdateItem
    \/ DeleteItem
    \/ ResolveItem
    \/ CreateComplaint
    \/ UpdateComplaintStatus
    \/ AddComment
    \/ UpdateComplaint
    \/ DeleteComplaint

SpecAccess == InitAccess /\ [][NextAccess]_vars

\* Create requests of the timetable handled concurrently.
NextCreateRace ==
    \/ CreateLookup
    \/ CreateSave

SpecCreateRace == InitTimetable /\ [][NextCreateRace]_vars

\* The state after alice has registered a teacher profile, bob has filed a
\* contact request for it and alice has marked the request completed.
InitCompleted ==
    /\ scope = "skill"
    /\ now = 0
    /\ entries = {}
    /\ entrySeq = 0
    /\ items = {}
    /\ itemSeq = 0
    /\ complaints = {}
    /\ complaintSeq = 0
    /\ pending = <<>>
    /\ feedbacks = <<>>
    /\ accepting = <<>>
    /\ applied = <<>>
    /\ accounts = {}
    /\ teachers = {[id |-> TeacherIds[1], addedBy |-> "alice", email |-> "tutor@campus.edu",
                    isActive |-> TRUE, isVerified |-> FALSE, skills |-> <<SkillPython>>,
                    rating |-> ZeroRating, totalRatings |-> 0, totalSessions |-> 0]}
    /\ requests = {[id |-> 1, teacherId |-> TeacherIds[1], requesterId |-> "bob",
                    skill |-> <<"p", "y">>, status |-> "completed", sessionDate |-> {0},
                    rating |-> {}, feedback |-> ""]}
    /\ sessions = {}
    /\ notifications =
          <<Notification("alice", "contact_request", "New Learning Request", 1),
            Notification("bob", "contact_response", NotificationTitle("completed"), 1)>>
    /\ last = [op |-> "updateRequestStatus", actor |-> "alice", target |-> 1, code |-> 200,
               status |-> "completed", date |-> [kind |-> "date", t |-> 0]]

\* Feedback requests on a completed contact request handled concurrently.
NextRatingRace ==
    \/ FeedbackStart
    \/ FeedbackRate
    \/ FeedbackCount

SpecRatingRace == InitCompleted /\ [][NextRatingRace]_vars

\* Ratings applied to the teacher profile one after the other.
NextAverage == ApplyRating

SpecAverage == InitCompleted /\ [][NextAverage]_vars

\* Teacher profiles and the contact requests filed against them.
NextRequest ==
    \/ CreateTeacher
    \/ UpdateTeacher
    \/ CreateRequest

SpecRequest == InitSkill /\ [][NextRequest]_vars

\* The teacher profiles: create, update, verify and delete, with two email
\* addresses.
ProfileEmails == {"tutor@campus.edu", "mentor@campus.edu"}

NextTeacher ==
    \/ CreateTeacherWith(ProfileEmails)
    \/ UpdateTeacherWith(ProfileEmails)
    \/ VerifyTeacher
    \/ DeleteTeacher

SpecTeacher == InitSkill /\ [][NextTeacher]_vars

(***************************************************************************)
(* Concurrent acceptance requests.  router.patch('/requests/:id/status')   *)
(* saves the request and the notification, awaits the lookup of an         *)
(* existing session and then awaits the save of the new one.               *)
(***************************************************************************)
\* The handler up to and including LearningSession.findOne: an early return
\* answers the request; otherwise the request and the notification are
\* saved and the request waits with what its lookup found.
AcceptLookup ==
    /\ scope = "skill"
    /\ Len(accepting) < MaxInFlight
    /\ Len(notifications) < MaxNotifications
    /\ \E u \in Users, id \in 1..MaxRequests, date \in DateInputs :
         LET o == UpdateRequestStatusResult(u, id, "accepted", date) IN
         /\ requests' = o.requests
         /\ notifications' = o.notifications
         /\ IF o.notifications = notifications
            THEN /\ last' = [op |-> "updateRequestStatus", actor |-> u, target |-> id,
                             code |-> o.code]
                 /\ UNCHANGED accepting
            ELSE /\ accepting' = Append(accepting,
                                        [actor |-> u, id |-> id, date |-> date,
                                         seen |-> ExistingSession(sessions, id)])
                 /\ UNCHANGED last
    /\ UNCHANGED <<scope, now, ttVars, campusVars, teachers, sessions, pending, feedbacks,
                   applied, accounts>>

\* The handler from `if (!existingSession)` on: the session is saved unless
\* the lookup found one; after a save the handler fails and answers 500.
AcceptSave ==
    /\ scope = "skill"
    /\ \E i \in 1..Len(accepting) :
         LET p == accepting[i]
             req == CHOOSE r \in RequestById(requests, p.id) : TRUE
             creates == p.seen = {} /\ TeacherById(teachers, req.teacherId) # {} IN
         /\ sessions' = IF creates
                        THEN sessions \cup {NewSession(sessions, req, p.actor)}
                        ELSE sessions
         /\ last' = [op |-> "updateRequestStatus", actor |-> p.actor, target |-> p.id,
                     code |-> IF p.seen = {} THEN 500 ELSE 200,
                     status |-> "accepted", date |-> p.date]
         /\ accepting' = RemoveAt(accepting, i)
    /\ UNCHANGED <<scope, now, ttVars, campusVars, teachers, requests, notifications,
                   pending, feedbacks, applied, accounts>>

\* The collections after alice added a teacher profile and bob filed a
\* contact request.
InitRequested ==
    /\ scope = "skill"
    /\ now = 0
    /\ entries = {}
    /\ entrySeq = 0
    /\ items = {}
    /\ itemSeq = 0
    /\ complaints = {}
    /\ complaintSeq = 0
    /\ pending = <<>>
    /\ feedbacks = <<>>
    /\ accepting = <<>>
    /\ applied = <<>>
    /\ accounts = {}
    /\ teachers = {[id |-> TeacherIds[1], addedBy |-> "alice", email |-> "tutor@campus.edu",
                    isActive |-> TRUE, isVerified |-> FALSE, skills |-> <<SkillPython>>,
                    rating |-> ZeroRating, totalRatings |-> 0, totalSessions |-> 0]}
    /\ requests = {[id |-> 1, teacherId |-> TeacherIds[1], requesterId |-> "bob",
                    skill |-> <<"p", "y">>, status |-> "pending", sessionDate |-> {},
                    rating |-> {}, feedback |-> ""]}
    /\ sessions = {}
    /\ notifications =
          <<Notification("alice", "contact_request", "New Learning Request", 1)>>
    /\ last = [op |-> "createRequest", actor |-> "bob", target |-> 0, code |-> 201]

\* Acceptance requests on one contact request handled concurrently.
NextAcceptRace ==
    \/ AcceptLookup
    \/ AcceptSave
    \/ Tick

SpecAcceptRace == InitRequested /\ [][NextAcceptRace]_vars

\* The collections after alice added a teacher profile, bob filed a contact
\* request and alice accepted it: the learning session is scheduled.
InitScheduled ==
    /\ scope = "skill"
    /\ now = 0
    /\ entries = {}
    /\ entrySeq = 0
    /\ items = {}
    /\ itemSeq = 0
    /\ complaints = {}
    /\ complaintSeq = 0
    /\ pending = <<>>
    /\ feedbacks = <<>>
    /\ accepting = <<>>
    /\ applied = <<>>
    /\ accounts = {}
    /\ teachers = {[id |-> TeacherIds[1], addedBy |-> "alice", email |-> "tutor@campus.edu",
                    isActive |-> TRUE, isVerified |-> FALSE, skills |-> <<SkillPython>>,
                    rating |-> ZeroRating, totalRatings |-> 0, totalSessions |-> 0]}
    /\ requests = {[id |-> 1, teacherId |-> TeacherIds[1], requesterId |-> "bob",
                    skill |-> <<"p", "y">>, status |-> "accepted", sessionDate |-> {0},
                    rating |-> {}, feedback |-> ""]}
    /\ sessions = {[id |-> 1, teacherId |-> TeacherIds[1], learnerId |-> "bob",
                    contactRequestId |-> 1, status |-> "scheduled",
                    notes |-> <<Note("Session scheduled", "alice", 0)>>,
                    cancelledBy |-> {}, cancelReason |-> ""]}
    /\ notifications =
          <<Notification("alice", "contact_request", "New Learning Request", 1),
            Notification("bob", "contact_response", NotificationTitle("accepted"), 1)>>
    /\ last = [op |-> "updateRequestStatus", actor |-> "alice", target |-> 1, code |-> 500,
               status |-> "accepted", date |-> [kind |-> "date", t |-> 0]]

\* The mounted learning-session routes on a scheduled session.
NextSession ==
    \/ UpdateSessionStatus
    \/ UpdateSessionDetails
    \/ SessionFeedback
    \/ Tick

SpecSession == InitScheduled /\ [][NextSession]_vars

\* The session route of skillExchange.js.new on a scheduled session.
NextSessionNew ==
    \/ UpdateSession
    \/ Tick

SpecSessionNew == InitScheduled /\ [][NextSessionNew]_vars

InitComplaints == scope = "complaints" /\ Empty

\* The requests of both complaints routers on one complaint.
NextComplaints ==
    \/ CreateComplaint
    \/ UpdateComplaintStatus
    \/ UpdateComplaint
    \/ UpdateComplaintById
    \/ AddComment
    \/ DeleteComplaint
    \/ Tick

SpecComplaints == InitComplaints /\ [][NextComplaints]_vars

\* The contact-request / learning-session lifecycle.
NextSkill ==
    \/ CreateTeacher
    \/ CreateRequest
    \/ UpdateRequestStatus
    \/ UpdateSessionStatus
    \/ Tick

SpecSkill == InitSkill /\ [][NextSkill]_vars

\* Contact requests and their ratings.
NextRating ==
    \/ CreateTeacher
    \/ CreateRequest
    \/ UpdateRequestStatus
    \/ SubmitFeedback

SpecRating == InitSkill /\ [][NextRating]_vars

(***************************************************************************)
(* Accounts (the auth router and userSchema).  An account is identified by *)
(* its email address; the name and the avatar are left out.                *)
(***************************************************************************)
PasswordInputs == {"", "abc", "secret1", "secret2"}

\* password.length < 6 on the passwords of PasswordInputs.
TooShort(password) == password = "abc"

\* userSchema.pre('save'): a modified password is stored as its bcrypt hash.
Hash(password) == <<"bcrypt", password>>

\* userSchema.methods.comparePassword
ComparePassword(user, candidatePassword) == user.password = Hash(candidatePassword)

RoleInputs == {"student", "admin"}
VerificationInputs == {"pending", "verified", "rejected"}

\* User.findOne({ email }) and User.findById, as a set of at most one account.
FindUser(db, email) == {a \in db : a.id = email}

\* router.post('/signup'); file tells whether an ID card image is attached.
\* Every account leaves the handler verified.
SignupResult(db, email, password, role, file) ==
    IF ~Given(email) \/ ~Given(password) THEN [code |-> 400, db |-> db]
    ELSE IF TooShort(password) THEN [code |-> 400, db |-> db]
    ELSE IF role = "student" /\ ~file THEN [code |-> 400, db |-> db]
    ELSE IF FindUser(db, email) # {} THEN [code |-> 400, db |-> db]
    ELSE [code |-> 201,
          db |-> db \cup {[id |-> email, role |-> role, password |-> Hash(password),
                           isActive |-> TRUE, verificationStatus |-> "verified",
                           cardVerified |-> (role = "student" /\ file)]}]

Signup ==
    /\ scope = "auth"
    /\ \E email \in Users, password \in PasswordInputs, role \in RoleInputs,
          file \in BOOLEAN :
         LET o == SignupResult(accounts, email, password, role, file) IN
         /\ accounts' = o.db
         /\ last' = [op |-> "signup", actor |-> email, target |-> 0, code |-> o.code]
    /\ UNCHANGED <<scope, now, ttVars, skillVars, campusVars, raceVars, applied>>

\* router.post('/login').  A pending account is saved as verified before the
\* rejected check and the password check.
LoginResult(db, email, password) ==
    IF ~Given(email) \/ ~Given(password) THEN [code |-> 400, db |-> db]
    ELSE IF FindUser(db, email) = {} THEN [code |-> 401, db |-> db]
    ELSE LET found == CHOOSE a \in FindUser(db, email) : TRUE
             user == IF found.verificationStatus = "pending"
                     THEN [found EXCEPT !.verificationStatus = "verified",
                                        !.cardVerified = TRUE]
                     ELSE found
             saved == (db \ {found}) \cup {user}
         IN  IF ~found.isActive THEN [code |-> 401, db |-> db]
             ELSE IF user.role = "student" /\ user.verificationStatus = "rejected"
                  THEN [code |-> 403, db |-> saved]
             ELSE IF ~ComparePassword(user, password) THEN [code |-> 401, db |-> saved]
             ELSE [code |-> 200, db |-> saved]

Login ==
    /\ scope = "auth"
    /\ \E email \in Users \cup {""}, password \in PasswordInputs :
         LET o == LoginResult(accounts, email, password) IN
         /\ accounts' = o.db
         /\ last' = [op |-> "login", actor |-> email, target |-> 0, code |-> o.code]
    /\ UNCHANGED <<scope, now, ttVars, skillVars, campusVars, raceVars, applied>>

\* router.put('/profile') of the account behind the bearer token; file tells
\* whether a new ID card image is attached.
UpdateProfileResult(db, u, file) ==
    LET user == CHOOSE a \in FindUser(db, u) : TRUE IN
    IF user.role = "student" /\ file
    THEN [code |-> 200,
          db |-> (db \ {user}) \cup {[user EXCEPT !.verificationStatus = "pending",
                                                   !.cardVerified = FALSE]}]
    ELSE [code |-> 200, db |-> db]

UpdateProfile ==
    /\ scope = "auth"
    /\ \E user \in accounts, file \in BOOLEAN :
         LET o == UpdateProfileResult(accounts, user.id, file) IN
         /\ accounts' = o.db
         /\ last' = [op |-> "updateProfile", actor |-> user.id, target |-> 0,
                     code |-> o.code]
    /\ UNCHANGED <<scope, now, ttVars, skillVars, campusVars, raceVars, applied>>

\* router.put('/change-password')
ChangePasswordResult(db, u, currentPassword, newPassword) ==
    LET user == CHOOSE a \in FindUser(db, u) : TRUE IN
    IF ~Given(currentPassword) \/ ~Given(newPassword) THEN [code |-> 400, db |-> db]
    ELSE IF TooShort(newPassword) THEN [code |-> 400, db |-> db]
    ELSE IF ~ComparePassword(user, currentPassword) THEN [code |-> 400, db |-> db]
    ELSE [code |-> 200,
          db |-> (db \ {user}) \cup {[user EXCEPT !.password = Hash(newPassword)]}]

ChangePassword ==
    /\ scope = "auth"
    /\ \E user \in accounts, currentPassword \in PasswordInputs,
          newPassword \in PasswordInputs :
         LET o == ChangePasswordResult(accounts, user.id, currentPassword, newPassword) IN
         /\ accounts' = o.db
         /\ last' = [op |-> "changePassword", actor |-> user.id, target |-> 0,
                     code |-> o.code]
    /\ UNCHANGED <<scope, now, ttVars, skillVars, campusVars, raceVars, applied>>

\* router.put('/verify-student/:userId') by the account u.
VerifyStudentResult(db, u, userId, status) ==
    LET admin == CHOOSE a \in FindUser(db, u) : TRUE IN
    IF admin.role # "admin" THEN [code |-> 403, db |-> db]
    ELSE IF status \notin {"verified", "rejected"} THEN [code |-> 400, db |-> db]
    ELSE IF FindUser(db, userId) = {} THEN [code |-> 404, db |-> db]
    ELSE LET user == CHOOSE a \in FindUser(db, userId) : TRUE IN
         IF user.role # "student" THEN [code |-> 400, db |-> db]
         ELSE [code |-> 200,
               db |-> (db \ {user}) \cup
                      {[user EXCEPT !.verificationStatus = status,
                                    !.cardVerified = IF status = "verified" THEN TRUE
                                                     ELSE user.cardVerified]}]

VerifyStudent ==
    /\ scope = "auth"
    /\ \E admin \in accounts, userId \in Users, status \in VerificationInputs :
         LET o == VerifyStudentResult(accounts, admin.id, userId, status) IN
         /\ accounts' = o.db
         /\ last' = [op |-> "verifyStudent", actor |-> admin.id, target |-> 0,
                     code |-> o.code, user |-> userId]
    /\ UNCHANGED <<scope, now, ttVars, skillVars, campusVars, raceVars, applied>>

InitAuth == scope = "auth" /\ Empty

NextAuth ==
    \/ Signup
    \/ Login
    \/ UpdateProfile
    \/ ChangePassword
    \/ VerifyStudent

SpecAuth == InitAuth /\ [][NextAuth]_vars

(***************************************************************************)
(* Properties of the timetable store.                                      *)
(***************************************************************************)
\* Two time windows overlap, in minutes of the day.
WindowsOverlap(e1, e2) ==
    /\ DateOf(e1.startTime) < DateOf(e2.endTime)
    /\ DateOf(e2.startTime) < DateOf(e1.endTime)

\* C1: no two stored timetable entries of one user on one day have
\* overlapping time windows, after any sequence of create, bulk-create and
\* update requests.
C1_NoOverlappingEntries ==
    \A e1 \in entries, e2 \in entries :
        (e1.id # e2.id /\ e1.userId = e2.userId /\ e1.day = e2.day)
            => ~WindowsOverlap(e1, e2)

\* C9: no stored timetable entry has a start time equal to or later than its
\* end time, and a request answered with an error leaves every stored entry
\* as it was.
C9_StartBeforeEnd ==
    /\ [](\A e \in entries : DateOf(e.startTime) < DateOf(e.endTime))
    /\ [][last'.code >= 400 => entries' = entries]_vars

\* The stored entries of a step that are new or whose day, start or end differ
\* from the entry stored under the same id before the step.
WrittenWindows ==
    {d \in entries' :
        \A e \in entries :
            e.id = d.id =>
                (e.day # d.day \/ e.startTime # d.startTime \/ e.endTime # d.endTime)}

\* C10: every step that writes an entry's day, start time or end time leaves
\* that entry free of a conflict, as the lookup of the handlers decides it,
\* with the entries its user had before the step.
C10_LookupBeforeEveryWrite ==
    [][\A d \in WrittenWindows :
          ~ConflictingEntry(entries, d.userId, d.day, d.startTime, d.endTime, d.id)]_vars

(***************************************************************************)
(* Properties of the skill-exchange lifecycle.                             *)
(***************************************************************************)
\* The contact requests of a teacher profile that carry a rating.
RatedRequests(t) == {r \in requests : r.teacherId = t.id /\ r.rating # {}}

\* C2: a rating is applied to the teacher at most once per contact request:
\* totalRatings and totalSessions of a teacher profile never exceed the
\* number of its rated contact requests.
C2_RatingAppliedOnce ==
    \A t \in teachers :
        /\ t.totalRatings <= Cardinality(RatedRequests(t))
        /\ t.totalSessions <= Cardinality(RatedRequests(t))

AllowedTransitions ==
    {<<"pending", "accepted">>, <<"accepted", "completed">>, <<"pending", "declined">>}

\* C3: the status of a contact request changes only from pending to
\* accepted, from accepted to completed and from pending to declined.
C3_StatusTransitions ==
    [][\A r \in requests :
          \A r2 \in RequestById(requests', r.id) :
              r2.status # r.status => <<r.status, r2.status>> \in AllowedTransitions]_vars

\* C4: an accepted contact request has a session date, and a request becomes
\* accepted only in a step whose request carries a date that parses and is
\* later than the server clock.
C4_AcceptedNeedsFutureDate ==
    /\ [](\A r \in requests : r.status = "accepted" => r.sessionDate # {})
    /\ [][\A r2 \in requests' :
            (r2.status = "accepted"
                /\ \A r \in RequestById(requests, r2.id) : r.status # "accepted")
            => /\ last'.op = "updateRequestStatus"
               /\ last'.date.kind = "date"
               /\ last'.date.t > now]_vars

AcceptedTitle == NotificationTitle("accepted")

C6_ErrorLeavesStateUnchanged ==
    [][(last'.op \in {"updateRequestStatus", "updateSessionStatus"} /\ last'.code >= 400)
          => UNCHANGED <<requests, sessions, notifications>>]_vars

\* The last request was an acceptance answered with success.
AcceptanceSucceeded ==
    /\ last.op = "updateRequestStatus"
    /\ last.code = 200
    /\ last.status = "accepted"

\* A notification of the acceptance of request id is stored for its requester.
LearnerNotified(id) ==
    \E r \in RequestById(requests, id) :
        \E i \in 1..Len(notifications) :
            /\ notifications[i].recipient = r.requesterId
            /\ notifications[i].type = "contact_response"
            /\ notifications[i].title = AcceptedTitle
            /\ notifications[i].relatedId = id

\* C7: after an acceptance answered with success, a learning
\* session of the contact request exists in scheduled state and the learner
\* has been notified.
C7_AcceptedHasScheduledSession ==
    AcceptanceSucceeded =>
        /\ \E x \in sessions : x.contactRequestId = last.target /\ x.status = "scheduled"
        /\ LearnerNotified(last.target)

(***************************************************************************)
(* Access control over the documents of a user.                            *)
(***************************************************************************)
\* u is the owner of a document or an admin.
OwnerOrAdmin(u, owner) == u = owner \/ Role(u) = "admin"

\* C8: a request of a user who is neither the owner of a timetable entry, a
\* lost-and-found item or a complaint nor an admin leaves that document
\* stored with all its fields unchanged.
C8_NonOwnerCannotMutate ==
    [][/\ \A e \in entries : ~OwnerOrAdmin(last'.actor, e.userId) => e \in entries'
       /\ \A i \in items : ~OwnerOrAdmin(last'.actor, i.reportedBy) => i \in items'
       /\ \A c \in complaints :
            ~OwnerOrAdmin(last'.actor, c.submittedBy) => c \in complaints']_vars

\* A student's update, delete, resolve, comment or status request against a
\* stored document of another user has been turned down.
C8_Witness ==
    /\ last.actor \in Students
    /\ \/ /\ last.op \in {"updateEntry", "deleteEntry"}
          /\ last.code = 404
          /\ \E e \in entries : e.id = last.target /\ e.userId # last.actor
       \/ /\ last.op \in {"updateItem", "deleteItem", "resolveItem"}
          /\ last.code = 403
          /\ \E i \in items : i.id = last.target /\ i.reportedBy # last.actor
       \/ /\ last.op \in {"updateComplaintStatus", "addComment", "updateComplaint",
                          "deleteComplaint"}
          /\ last.code = 403
          /\ \E c \in complaints : c.id = last.target /\ c.submittedBy # last.actor

(***************************************************************************)
(* Concurrent requests.                                                    *)
(***************************************************************************)
\* The create request that saves in this step, as a set.
SavingCreate ==
    {p \in {pending[i] : i \in 1..Len(pending)} :
        /\ Len(pending') = Len(pending) - 1
        /\ \E d \in entries' \ entries : d.userId = p.userId /\ d.startTime = p.body.startTime
                                         /\ d.endTime = p.body.endTime}

\* C11: a create request saves its entry without looking again, so an entry
\* that clashes with the saved one is stored beside it exactly when it was
\* saved after the request's lookup: two concurrent creates of one user and
\* day with overlapping windows both pass the lookup and are both stored.
C11_CreateRace ==
    [][\A d \in entries' \ entries :
         \A e \in entries :
            (e.userId = d.userId /\ e.day = d.day /\ TimeClash(e, d.startTime, d.endTime))
            => \A p \in SavingCreate : e.id \notin p.seen]_vars

\* Two entries of one user and day are stored whose windows overlap and
\* clash in the conflict query itself.
C11_Witness ==
    \E e1 \in entries, e2 \in entries :
        /\ e1.id # e2.id
        /\ e1.userId = e2.userId
        /\ e1.day = e2.day
        /\ WindowsOverlap(e1, e2)
        /\ TimeClash(e1, e2.startTime, e2.endTime)
        /\ TimeClash(e2, e1.startTime, e1.endTime)

\* C12: the save of a feedback request writes totalRatings and the average
\* computed from the teacher profile the request read, whatever has been
\* stored since: of two concurrent submissions that read the same profile,
\* the later save overwrites the earlier one.
C12_RatingRace ==
    [][\A i \in 1..Len(feedbacks) :
         (Len(feedbacks') = Len(feedbacks)
             /\ feedbacks[i].phase = "rate" /\ feedbacks'[i].phase = "count")
         => \A old \in feedbacks[i].read :
              \A t \in TeacherById(teachers', old.id) :
                 /\ t.totalRatings = old.totalRatings + 1
                 /\ t.rating.num * old.rating.den * t.totalRatings
                        = t.rating.den * (old.rating.num * old.totalRatings
                                            + feedbacks[i].rating.v * old.rating.den)]_vars

\* Two rating submissions for one teacher were both answered with success,
\* and the teacher's totalRatings is 1 and its average one of the two ratings.
C12_Witness ==
    /\ Len(feedbacks) = 2
    /\ \A i \in 1..2 : /\ feedbacks[i].phase = "done"
                       /\ feedbacks[i].code = 200
                       /\ feedbacks[i].rating.kind = "number"
    /\ feedbacks[1].rating.v # feedbacks[2].rating.v
    /\ \A t \in teachers :
         /\ t.totalRatings = 1
         /\ \E i \in 1..2 : t.rating = Fraction(feedbacks[i].rating.v, 1)

(***************************************************************************)
(* Who may act on contact requests and learning sessions.                  *)
(***************************************************************************)
\* u added the teacher profile of contact request r.
OwnsTeacherOf(u, r) == \E t \in TeacherById(teachers, r.teacherId) : t.addedBy = u

CanComplete(u, r) ==
    \E date \in DateInputs :
        \E r2 \in RequestById(UpdateRequestStatusResult(u, r.id, "completed", date).requests,
                              r.id) :
            r2.status = "completed"

\* C14: for an accepted contact request, a completion request from the owner
\* of the teacher profile and a completion request from the learner who
\* filed it can each move it to completed.
C14_EitherActorCompletes ==
    \A r \in requests :
        r.status = "accepted" =>
            /\ \A t \in TeacherById(teachers, r.teacherId) : CanComplete(t.addedBy, r)
            /\ CanComplete(r.requesterId, r)

(***************************************************************************)
(* Properties of ratings and feedback.                                     *)
(***************************************************************************)
\* The submission the claim allows: by the learner who filed request id,
\* while it is completed, with a rating from 1 to 5.
ProperFeedback(u, id, rating) ==
    /\ rating.kind = "number" /\ rating.v >= 1 /\ rating.v <= 5
    /\ \E r \in RequestById(requests, id) : r.requesterId = u /\ r.status = "completed"

\* Every stored request keeps its rating and every teacher profile keeps its
\* rating, totalRatings and totalSessions in outcome o.
RatingsKept(o) ==
    /\ \A r \in requests : \E r2 \in RequestById(o.requests, r.id) : r2.rating = r.rating
    /\ \A t \in teachers :
           \E t2 \in TeacherById(o.teachers, t.id) :
               /\ t2.rating = t.rating
               /\ t2.totalRatings = t.totalRatings
               /\ t2.totalSessions = t.totalSessions

\* C15: every feedback submission other than one by the original learner on
\* a completed request with a rating from 1 to 5 is answered with an error
\* and leaves the ratings of the requests and the rating, totalRatings and
\* totalSessions of the teachers unchanged.
C15_ImproperFeedbackRejected ==
    \A u \in Users, id \in 1..MaxRequests, rating \in RatingInputs,
       feedback \in FeedbackInputs :
        ~ProperFeedback(u, id, rating) =>
            LET o == SubmitFeedbackResult(u, id, rating, feedback) IN
            o.code >= 400 /\ RatingsKept(o)

RECURSIVE SumOf(_)
SumOf(seq) == IF seq = <<>> THEN 0 ELSE Head(seq) + SumOf(Tail(seq))

\* C16: each application of a rating makes the average (old average * old
\* count + new rating) / (old count + 1); starting from rating 0 and
\* totalRatings 0, after n ratings applied one at a time totalRatings is n,
\* rating * n is their sum, and the rating lies within 1..5 once n >= 1.
C16_RunningAverage ==
    /\ [](\A t \in teachers :
            /\ t.totalRatings = Len(applied)
            /\ t.rating.num * Len(applied) = SumOf(applied) * t.rating.den
            /\ Len(applied) >= 1 =>
                   (t.rating.den <= t.rating.num /\ t.rating.num <= 5 * t.rating.den))
    /\ [][\A t \in teachers : \A t2 \in TeacherById(teachers', t.id) :
            applied' # applied =>
                t2.rating.num * t.rating.den * (t.totalRatings + 1)
                    = t2.rating.den * (t.rating.num * t.totalRatings
                                       + applied'[Len(applied')] * t.rating.den)]_vars

\* Three ratings were applied and their average is no whole number.
C16_Witness ==
    /\ Len(applied) = 3
    /\ \E t \in teachers : t.totalRatings = 3 /\ t.rating.den = 3

(***************************************************************************)
(* Properties of contact-request creation.                                 *)
(***************************************************************************)
\* Characters a and b are the same letter, whatever their case.
SameLetter(a, b) ==
    \/ a = b
    \/ \E i \in 1..Len(UpperCase) : {a, b} = {UpperCase[i], LowerCase[i]}

\* sub occurs in str as a substring, letters compared without regard to case.
ContainsIgnoringCase(str, sub) ==
    \E off \in 0..(Len(str) - Len(sub)) :
        \A k \in 1..Len(sub) : SameLetter(str[off + k], sub[k])

\* The creation the claim rejects: teacher profile t is inactive or none of
\* its skills contains the requested skill.
MustReject(t, skill) ==
    \/ ~t.isActive
    \/ \A i \in 1..Len(t.skills) : ~ContainsIgnoringCase(t.skills[i], skill)

Stranger(u, x) ==
    /\ u # x.learnerId
    /\ \A t \in TeacherById(teachers, x.teacherId) : t.addedBy # u

\* Outcome o is an error that left the status and the notes of session x.
SessionKept(o, x) ==
    /\ o.code >= 400
    /\ \E y \in SessionById(o.sessions, x.id) : y.status = x.status /\ y.notes = x.notes

C19_CancellationRecorded ==
    /\ \A x \in sessions :
           x.status = "cancelled" => (x.cancelledBy # {} /\ Given(x.cancelReason))
    /\ \A x \in sessions, u \in Users :
           \A y \in SessionById(UpdateSessionStatusResult(u, x.id, "cancelled", "").sessions,
                                x.id) :
               y.status = x.status

\* The request just answered came from the learner or from the owner of the
\* teacher profile of session x.
ByParticipant(x) == ~Stranger(last'.actor, x)

\* C20: the notes of a learning session only grow: a request leaves every
\* earlier note in place with its content, author and timestamp, and every
\* note it adds carries the id of the requesting participant.
C20_NotesAppendOnly ==
    [][\A x \in sessions : \A y \in SessionById(sessions', x.id) :
         /\ Len(y.notes) >= Len(x.notes)
         /\ \A k \in 1..Len(x.notes) : y.notes[k] = x.notes[k]
         /\ \A k \in (Len(x.notes) + 1)..Len(y.notes) :
                y.notes[k].addedBy = last'.actor /\ ByParticipant(x)]_vars

(***************************************************************************)
(* Properties of complaints.                                               *)
(***************************************************************************)
\* C21: the status of a complaint changes only in a step that answers a
\* request made by an admin.
C21_StatusChangedByAdminOnly ==
    [][\A c \in complaints : \A c2 \in ComplaintById(complaints', c.id) :
         c2.status # c.status => Role(last'.actor) = "admin"]_vars

\* An admin moved the complaint on, and its submitter, a student, then sent
\* an update by id, answered 200; an update of theirs that carries a status
\* leaves the collection as it is.
C21_Witness ==
    /\ last.op = "updateComplaintById" /\ last.code = 200
    /\ \E c \in ComplaintById(complaints, last.target) :
         /\ c.status = "in-progress"
         /\ c.submittedBy = last.actor /\ Role(last.actor) = "student"
         /\ UpdateComplaintByIdResult(complaints, c.id, last.actor, "", "resolved", "")
                = [code |-> 200, db |-> complaints]

\* C22: every complaint whose status is resolved has a resolvedAt.
C22_ResolvedHasTimestamp ==
    \A c \in complaints : c.status = "resolved" => c.resolvedAt # {}

\* The enumeration of the specification.
EnumeratedCategories ==
    {"Water", "Electricity", "Cleaning", "Maintenance", "Internet", "Security", "Other"}

\* C24: submitting a complaint with a category outside the enumeration is
\* answered with a client error and stores nothing; a stored complaint
\* carries the category that was submitted, and every stored category is
\* one of the enumeration.
C24_CategoryEnumerated ==
    /\ \A c \in complaints : c.category \in EnumeratedCategories
    /\ \A u \in Users, b \in ComplaintBodies :
           LET r == CreateComplaintResult(complaints, complaintSeq, u, b) IN
           /\ b.category \notin EnumeratedCategories =>
                  (r.code >= 400 /\ r.code < 500 /\ r.db = complaints)
           /\ \A c \in r.db \ complaints : c.category = b.category

\* A student's update by id with a category outside the enumeration was
\* refused, and the stored complaint keeps the category an earlier update
\* gave it; a submission with such a category is answered 400.
C24_Witness ==
    /\ last.op = "updateComplaintById" /\ last.code = 500 /\ Role(last.actor) = "student"
    /\ \E c \in ComplaintById(complaints, last.target) : c.category = "Electricity"
    /\ CreateComplaintResult(complaints, complaintSeq, "bob",
                             [title |-> "Leak", category |-> "Noise"]).code = 400

(***************************************************************************)
(* Authorization failures.                                                 *)
(***************************************************************************)
\* The request just answered targets stored timetable entry e and its actor
\* fails the ownership check of the handler.
RefusedOnEntry(e) ==
    /\ last'.op \in {"updateEntry", "deleteEntry"}
    /\ last'.target = e.id
    /\ last'.actor # e.userId

RefusedOnItem(i) ==
    /\ last'.op \in {"updateItem", "deleteItem", "resolveItem"}
    /\ last'.target = i.id
    /\ ~OwnerOrAdmin(last'.actor, i.reportedBy)

RefusedOnComplaint(c) ==
    /\ last'.target = c.id
    /\ \/ last'.op = "updateComplaintStatus" /\ Role(last'.actor) # "admin"
       \/ last'.op = "updateComplaint" /\ last'.actor # c.submittedBy
       \/ last'.op = "deleteComplaint" /\ ~OwnerOrAdmin(last'.actor, c.submittedBy)

\* C23: an update or delete request on a stored timetable entry, item or
\* complaint from an actor who fails the role or ownership check of the
\* handler is answered 403 and writes nothing.
C23_RefusedWith403 ==
    [][/\ \A e \in entries : RefusedOnEntry(e) => (last'.code = 403 /\ entries' = entries)
       /\ \A i \in items : RefusedOnItem(i) => (last'.code = 403 /\ items' = items)
       /\ \A c \in complaints :
            RefusedOnComplaint(c) => (last'.code = 403 /\ complaints' = complaints)]_vars

(***************************************************************************)
(* The conflict lookup as a comparison of times.                           *)
(***************************************************************************)
\* The strings of d are times the format validator accepts, the start
\* before the end.
ValidWindow(startTime, endTime) ==
    /\ TimeRegexTest(startTime) /\ TimeRegexTest(endTime)
    /\ DateOf(startTime) < DateOf(endTime)

\* C25: for times the format validator accepts, the conflict lookup reports
\* a new window [s, e) against a stored window [s', e') exactly when
\* s' < e and e' > s in minutes of the day.
C25_LookupIsNumericOverlap ==
    \A x \in entries : \A startTime \in Times, endTime \in Times :
        (ValidWindow(x.startTime, x.endTime) /\ ValidWindow(startTime, endTime)) =>
            (TimeClash(x, startTime, endTime)
                <=> (DateOf(x.startTime) < DateOf(endTime)
                     /\ DateOf(x.endTime) > DateOf(startTime)))

\* C26: the owner of the teacher profile of a learning session is let
\* through as its teacher: their status, details and feedback requests on
\* the session are not answered 403.
C26_OwnerIsSessionTeacher ==
    \A x \in sessions : \A t \in TeacherById(teachers, x.teacherId) :
        /\ UpdateSessionStatusResult(t.addedBy, x.id, "completed", "").code # 403
        /\ UpdateSessionDetailsResult(t.addedBy, x.id, "absent", "See you there").code # 403
        /\ SessionFeedbackResult(t.addedBy, x.id, [kind |-> "number", v |-> 5]).code # 403

\* C27: no two learning sessions reference the same contact request, also
\* when acceptance requests are handled concurrently.
C27_OneSessionUnderRace ==
    \A x \in sessions, y \in sessions : x.contactRequestId = y.contactRequestId => x = y

(***************************************************************************)
(* Properties of the accounts.                                             *)
(***************************************************************************)
\* The account of the step's actor is an admin account.
ByAdminAccount == \E a \in accounts : a.id = last'.actor /\ a.role = "admin"

\* C28: a student's verificationStatus changes only in a profile update of
\* that student (to pending) or in an admin's verify-student request (to
\* verified or rejected), and a login request leaves the accounts as they are.
C28_VerificationOnlyByUploadOrAdmin ==
    [][/\ \A a \in accounts, b \in accounts' :
              (a.id = b.id /\ a.role = "student"
                 /\ a.verificationStatus # b.verificationStatus)
              => \/ /\ last'.op = "updateProfile"
                    /\ last'.actor = a.id
                    /\ b.verificationStatus = "pending"
                 \/ /\ last'.op = "verifyStudent"
                    /\ ByAdminAccount
                    /\ b.verificationStatus \in {"verified", "rejected"}
       /\ last'.op = "login" => accounts' = accounts]_vars

\* C29: a login answered with 401 or 403 leaves every stored account as it
\* was.
C29_FailedLoginWritesNothing ==
    [][(last'.op = "login" /\ last'.code \in {401, 403}) => accounts' = accounts]_vars

(***************************************************************************)
(* Properties of the teacher profiles.                                     *)
(***************************************************************************)
\* C30: after any sequence of teacher-profile create, update, verify and
\* delete requests, no two active teacher profiles have the same email.
C30_ActiveEmailsDistinct ==
    \A x \in teachers, y \in teachers :
        (x.isActive /\ y.isActive /\ x.email = y.email) => x.id = y.id

====
